---- MODULE Spec2Model ----
(***************************************************************************)
(* Authentication and authorization layer of the expense-tracker API:      *)
(* the token codec (backend/app/auth/jwt.py), the identity resolver         *)
(* (backend/app/auth/dependencies.py), the OAuth client                     *)
(* (backend/app/auth/oauth.py) and the auth endpoints                       *)
(* (backend/app/routers/auth.py), over the user store of                    *)
(* backend/app/models/expenses.py.                                          *)
(*                                                                         *)
(* Conventions.  An Optional[...] value of the code is a sequence of        *)
(* length at most one: None is <<>> and a present value v is <<v>>.         *)
(* Strings that the code parses or splits (the 'sub' claim, e-mail          *)
(* addresses, usernames) are sequences of one-character strings.            *)
(* A call that may raise returns [exc |-> name, ret |-> value]; exc is      *)
(* "none" when the call returned normally.  Time is in whole seconds, the   *)
(* resolution of the 'exp' claim.                                           *)
(***************************************************************************)
EXTENDS Integers, Sequences, FiniteSets, TLC

VARIABLES
    users,        \* the users table: a sequence, row i has id i (autoincrement)
    categories,   \* the categories table: set of rows
    expenses,     \* the expenses table: set of rows
    nextid,       \* next primary keys of categories and expenses
    now,          \* the clock, seconds
    ticks,        \* number of clock advances so far
    session,      \* the session held for the browser: [oauth_state]
    nstates,      \* number of CSRF states generated so far
    issued,       \* token pairs handed to clients so far
    calls,        \* /auth/google/callback requests waiting for the provider
    resp          \* the last request handled and its response

vars ==
    <<users, categories, expenses, nextid, now, ticks, session, nstates, issued, calls,
      resp>>

-----------------------------------------------------------------------------
(* Bounds of the model *)

MaxUsers == 2
MaxTicks == 1
MaxIssued == 1
MaxFlows == 1
MaxExpenses == 1
MaxCategories == 1
MaxCalls == 2
MaxPairs == 2
MaxRows == 2
MaxStarts == 2

(* Program constants *)

JWT_ACCESS_TOKEN_EXPIRE_MINUTES == 30
JWT_REFRESH_TOKEN_EXPIRE_DAYS == 7
JWT_SECRET_KEY == "your-secret-key-change-this-in-production"

-----------------------------------------------------------------------------
(* Optional values *)

None == <<>>
Some(v) == <<v>>
IsNone(o) == Len(o) = 0
IsSome(o) == Len(o) = 1
Get(o) == o[1]

(* Outcome of a call: normal return or raised exception *)
Ret(v) == [exc |-> "none", ret |-> v]
Raise(e) == [exc |-> e, ret |-> None]

-----------------------------------------------------------------------------
(* str(int) and int(str) of Python, on sequences of characters *)

DigitChars == <<"0", "1", "2", "3", "4", "5", "6", "7", "8", "9">>

RECURSIVE str(_)
str(n) ==
    IF n < 0 THEN <<"-">> \o str(0 - n)
    ELSE IF n < 10 THEN <<DigitChars[n + 1]>>
    ELSE str(n \div 10) \o <<DigitChars[(n % 10) + 1]>>

IsDigit(c) == \E i \in 1..10 : DigitChars[i] = c
DigitVal(c) == (CHOOSE i \in 1..10 : DigitChars[i] = c) - 1

RECURSIVE DigitsVal(_)
DigitsVal(s) ==
    IF Len(s) = 0 THEN 0
    ELSE DigitsVal(SubSeq(s, 1, Len(s) - 1)) * 10 + DigitVal(s[Len(s)])

(* int(s): an optional sign followed by at least one digit, else ValueError *)
int(s) ==
    LET signed == Len(s) > 0 /\ s[1] \in {"-", "+"}
        body == IF signed THEN SubSeq(s, 2, Len(s)) ELSE s
    IN  IF Len(body) = 0 \/ \E i \in 1..Len(body) : ~IsDigit(body[i])
        THEN Raise("ValueError")
        ELSE Ret(Some(IF signed /\ s[1] = "-" THEN 0 - DigitsVal(body) ELSE DigitsVal(body)))

-----------------------------------------------------------------------------
(* JSON claim values: a string or a number, the number kept as its digits *)

JStr(s) == [t |-> "str", v |-> s]
JNum(n) == [t |-> "num", v |-> str(n)]

(* jose.jwt.encode / jose.jwt.decode with HS256.  A token is the signed     *)
(* payload; wf is false for a string that is not three decodable segments.  *)
jwt_encode(claims, key) == [wf |-> TRUE, key |-> key, claims |-> claims]

(* A mutant of jwt_decode: the exp claim is not verified *)
jwt_decode_noexp(token, key, t) ==
    IF ~token.wf THEN Raise("JWTError")
    ELSE IF token.key # key THEN Raise("JWTError")
    ELSE IF IsSome(token.claims.sub) /\ Get(token.claims.sub).t # "str"
         THEN Raise("JWTClaimsError")
    ELSE Ret(Some(token.claims))

jwt_decode(token, key, t) ==
    IF ~token.wf THEN Raise("JWTError")
    ELSE IF token.key # key THEN Raise("JWTError")
    ELSE IF IsSome(token.claims.exp) /\ Get(token.claims.exp) < t
         THEN Raise("ExpiredSignatureError")
    ELSE IF IsSome(token.claims.sub) /\ Get(token.claims.sub).t # "str"
         THEN Raise("JWTClaimsError")
    ELSE Ret(Some(token.claims))

IsJWTError(e) == e \in {"JWTError", "ExpiredSignatureError", "JWTClaimsError"}

create_access_token(data, t) ==
    LET expire == t + JWT_ACCESS_TOKEN_EXPIRE_MINUTES * 60
    IN  jwt_encode([sub |-> data.sub, email |-> data.email,
                    exp |-> Some(expire), type |-> Some("access")],
                   JWT_SECRET_KEY)

create_refresh_token(data, t) ==
    LET expire == t + JWT_REFRESH_TOKEN_EXPIRE_DAYS * 86400
    IN  jwt_encode([sub |-> data.sub, email |-> data.email,
                    exp |-> Some(expire), type |-> Some("refresh")],
                   JWT_SECRET_KEY)

(* TokenData(user_id=..., email=...): pydantic rejects an e-mail claim that  *)
(* is not a string                                                          *)
TokenData(user_id, email) ==
    IF email.t # "str" THEN Raise("ValidationError")
    ELSE Ret(Some([user_id |-> user_id, email |-> email.v]))

(* verify_token after user_id = int(user_id_str): ValueError and TypeError   *)
(* are caught there, then TokenData is built                                *)
verify_token_converted(conv, email) ==
    IF conv.exc \in {"ValueError", "TypeError"} THEN Ret(None)
    ELSE IF conv.exc # "none" THEN Raise(conv.exc)
    ELSE TokenData(Get(conv.ret), email)

(* verify_token after jwt.decode: the type, sub and email checks *)
verify_token_payload(dec, token_type) ==
    IF dec.exc # "none" THEN Raise(dec.exc)
    ELSE
    LET payload == Get(dec.ret)
        user_id_str == payload.sub
        email == payload.email
    IN  IF payload.type # Some(token_type) THEN Ret(None)
        ELSE IF IsNone(user_id_str) THEN Ret(None)
        ELSE IF IsNone(email) THEN Ret(None)
        ELSE verify_token_converted(int(Get(user_id_str).v), Get(email))

(* The body of verify_token's try block *)
verify_token_try(token, token_type, t) ==
    verify_token_payload(jwt_decode(token, JWT_SECRET_KEY, t), token_type)

(* verify_token's handlers: except JWTError -> None, except Exception -> None *)
verify_token_except(r) ==
    IF r.exc = "none" THEN r
    ELSE IF IsJWTError(r.exc) THEN Ret(None)
    ELSE Ret(None)

(* A mutant of verify_token: the type discriminator is not checked *)
verify_token_notype(token, token_type, t) ==
    LET dec == jwt_decode(token, JWT_SECRET_KEY, t)
    IN  IF dec.exc # "none" THEN Ret(None)
        ELSE
        LET payload == Get(dec.ret)
        IN  IF IsNone(payload.sub) \/ IsNone(payload.email) THEN Ret(None)
            ELSE LET conv == int(Get(payload.sub).v)
                     td == TokenData(Get(conv.ret), Get(payload.email))
                 IN  IF conv.exc # "none" \/ td.exc # "none" THEN Ret(None) ELSE td

(* A mutant of verify_token: only JWTError is caught *)
verify_token_leaky(token, token_type, t) ==
    LET r == verify_token_try(token, token_type, t)
    IN  IF r.exc = "none" THEN r
        ELSE IF IsJWTError(r.exc) THEN Ret(None)
        ELSE r

verify_token(token, token_type, t) ==
    verify_token_except(verify_token_try(token, token_type, t))

(* A mutant of create_token_pair: the e-mail is used as the subject *)
create_token_pair_mailsub(user_id, email, t) ==
    [access_token |-> create_access_token([sub |-> Some(JStr(email)),
                                           email |-> Some(JStr(email))], t),
     refresh_token |-> create_refresh_token([sub |-> Some(JStr(email)),
                                             email |-> Some(JStr(email))], t),
     token_type |-> "bearer",
     expires_in |-> JWT_ACCESS_TOKEN_EXPIRE_MINUTES * 60]

create_token_pair(user_id, email, t) ==
    [access_token |-> create_access_token([sub |-> Some(JStr(str(user_id))),
                                           email |-> Some(JStr(email))], t),
     refresh_token |-> create_refresh_token([sub |-> Some(JStr(str(user_id))),
                                             email |-> Some(JStr(email))], t),
     token_type |-> "bearer",
     expires_in |-> JWT_ACCESS_TOKEN_EXPIRE_MINUTES * 60]

-----------------------------------------------------------------------------
(* Credential hasher: passlib CryptContext(schemes=["bcrypt"]).  A password  *)
(* is a sequence of one-byte characters.  A hash string embeds its salt and *)
(* the digest of the key; ident is false for a string that is no bcrypt     *)
(* hash.  bcrypt keys on the first BcryptMaxBytes bytes of the password:    *)
(* passlib hands the password over whole and the rest is dropped silently.  *)

BcryptMaxBytes == 72

bcrypt_key(password) ==
    IF Len(password) > BcryptMaxBytes THEN SubSeq(password, 1, BcryptMaxBytes)
    ELSE password

hash_password(password, salt) ==
    [ident |-> TRUE, salt |-> salt, pw |-> bcrypt_key(password)]

verify_password(plain_password, hashed_password) ==
    IF ~hashed_password.ident THEN Raise("UnknownHashError")
    ELSE Ret(Some(hash_password(plain_password, hashed_password.salt) = hashed_password))

-----------------------------------------------------------------------------
(* The users table *)

UserIds(db) == 1..Len(db)

(* db.get(User, id) *)
db_get_user(db, id) == IF id \in UserIds(db) THEN Some(id) ELSE None

(* A mutant of user_by_email: the lookup finds nobody *)
user_by_email_blind(db, email) == None

(* db.query(User).filter(User.email == email).first() *)
user_by_email(db, email) ==
    LET hits == {i \in UserIds(db) : db[i].email = email}
    IN  IF hits = {} THEN None
        ELSE Some(CHOOSE i \in hits : \A j \in hits : i <= j)

(* A mutant of UniqueOk: the email column is not unique *)
UniqueOk_nomail(db) ==
    \A i, j \in UserIds(db) :
        i # j =>
            /\ IsSome(db[i].username) => db[i].username # db[j].username
            /\ IsSome(db[i].google_id) => db[i].google_id # db[j].google_id

(* The unique constraints of the users table: email, username, google_id *)
UniqueOk(db) ==
    \A i, j \in UserIds(db) :
        i # j =>
            /\ db[i].email # db[j].email
            /\ IsSome(db[i].username) => db[i].username # db[j].username
            /\ IsSome(db[i].google_id) => db[i].google_id # db[j].google_id

(* email.split("@")[0] *)
RECURSIVE LocalPart(_)
LocalPart(email) ==
    IF Len(email) = 0 \/ email[1] = "@" THEN <<>>
    ELSE <<email[1]>> \o LocalPart(Tail(email))

-----------------------------------------------------------------------------
(* Identity resolver *)

Fail(status, detail) == [status |-> status, detail |-> detail, user_id |-> 0]

(* A mutant of get_current_user: the active flag is not checked *)
get_current_user_noactive(credentials, db, t) ==
    IF IsNone(credentials)
    THEN Fail(401, "Authorization header missing")
    ELSE LET token_data == verify_token(Get(credentials), "access", t).ret
         IN  IF IsNone(token_data) THEN Fail(401, "Invalid token")
             ELSE IF IsNone(db_get_user(db, Get(token_data).user_id))
                  THEN Fail(401, "User not found")
             ELSE [status |-> 200, detail |-> "", user_id |-> Get(token_data).user_id]

(* A mutant of get_current_user: the active flag is checked before the token *)
get_current_user_swapped(credentials, db, t) ==
    IF IsNone(credentials)
    THEN Fail(401, "Authorization header missing")
    ELSE LET token_data == verify_token(Get(credentials), "access", t).ret
             claimed == int(Get(Get(credentials).claims.sub).v)
         IN  IF /\ Get(credentials).wf
                /\ IsSome(Get(credentials).claims.sub)
                /\ claimed.exc = "none"
                /\ Get(claimed.ret) \in UserIds(db)
                /\ ~db[Get(claimed.ret)].is_active
             THEN Fail(403, "User account is disabled")
             ELSE IF IsNone(token_data) THEN Fail(401, "Invalid token")
             ELSE IF IsNone(db_get_user(db, Get(token_data).user_id))
                  THEN Fail(401, "User not found")
             ELSE [status |-> 200, detail |-> "", user_id |-> Get(token_data).user_id]

(* get_current_user after token_data = verify_token(token, "access") *)
get_current_user_verified(verified, db) ==
    LET token_data == verified.ret
    IN  IF verified.exc # "none" THEN Fail(500, "Internal Server Error")
        ELSE IF IsNone(token_data) THEN Fail(401, "Invalid token")
        ELSE LET user == db_get_user(db, Get(token_data).user_id)
             IN  IF IsNone(user) THEN Fail(401, "User not found")
                 ELSE IF ~db[Get(user)].is_active
                      THEN Fail(403, "User account is disabled")
                 ELSE [status |-> 200, detail |-> "", user_id |-> Get(user)]

get_current_user(credentials, db, t) ==
    IF IsNone(credentials)
    THEN Fail(401, "Authorization header missing")
    ELSE get_current_user_verified(verify_token(Get(credentials), "access", t), db)

(* The body of get_current_active_user, given its dependency's result *)
get_current_active_user_body(current_user, db) ==
    IF current_user.status # 200 THEN current_user
    ELSE IF ~db[current_user.user_id].is_active THEN Fail(400, "Inactive user")
    ELSE current_user

(* get_current_active_user, resolved after its dependency get_current_user *)
get_current_active_user(credentials, db, t) ==
    get_current_active_user_body(get_current_user(credentials, db, t), db)

-----------------------------------------------------------------------------
(* OAuth federation client.  pr is what the provider answers for the code:  *)
(* how the token exchange ended, then the user-info call's status and body. *)

get_google_user_info(code, state, pr) ==
    IF pr.token \in {"oauth_error", "transport_error"} THEN Ret(None)
    ELSE IF pr.token = "no_access_token" THEN Ret(None)      \* KeyError, caught
    ELSE IF pr.userinfo = "transport_error" THEN Ret(None)
    ELSE IF pr.status # 200 THEN Ret(None)
    ELSE IF pr.body = "not_json" THEN Raise("JSONDecodeError")
    ELSE IF pr.body = "not_object" THEN Raise("AttributeError")
    ELSE IF IsNone(pr.data.id) THEN Ret(None)                \* KeyError, caught
    ELSE IF IsNone(pr.data.email) THEN Ret(None)             \* KeyError, caught
    ELSE IF Get(pr.data.id).t # "str" THEN Raise("ValidationError")
    ELSE Ret(Some([id |-> Get(pr.data.id).v,
                   email |-> Get(pr.data.email),
                   picture |-> pr.data.picture,
                   verified_email |-> IF IsSome(pr.data.verified_email)
                                      THEN Get(pr.data.verified_email) ELSE FALSE]))

-----------------------------------------------------------------------------
(* Requests and responses *)

Resp(op, status, detail) ==
    [op |-> op, status |-> status, detail |-> detail, user_id |-> 0,
     email |-> None, password |-> None, tokens |-> None, cred |-> None,
     state |-> None, code |-> None, body |-> {}, args |-> <<>>]

NoResp == Resp("", 0, "")

Issue(user_id, email, t) ==
    [user_id |-> user_id, email |-> email, iat |-> t,
     pair |-> create_token_pair(user_id, email, t)]

(* Room for one more issued pair *)
CanIssue(rec) == rec \in issued \/ Cardinality(issued) < MaxIssued

Init ==
    /\ users = <<>>
    /\ categories = {}
    /\ expenses = {}
    /\ nextid = [category |-> 1, expense |-> 1]
    /\ now = 0
    /\ ticks = 0
    /\ session = [oauth_state |-> None]
    /\ nstates = 0
    /\ issued = {}
    /\ calls = {}
    /\ resp = NoResp

-----------------------------------------------------------------------------
(* Auth endpoints *)

(* register from db.add on: the insert and its commit *)
register_write(rq, new_user) ==
    IF ~UniqueOk(Append(users, new_user))       \* IntegrityError at db.commit()
    THEN /\ resp' = [rq EXCEPT !.status = 500, !.detail = "Internal Server Error"]
         /\ UNCHANGED users
    ELSE /\ Len(users) < MaxUsers
         /\ users' = Append(users, new_user)
         /\ resp' = [rq EXCEPT !.status = 201, !.user_id = Len(users) + 1]

(* POST /auth/register *)
Register(email, username, password, salt) ==
    LET existing_user == user_by_email(users, email)
        new_user == [email |-> email, username |-> username,
                     hashed_password |-> Some(hash_password(password, salt)),
                     is_active |-> TRUE, is_verified |-> FALSE,
                     google_id |-> None, provider |-> "local",
                     avatar_url |-> None, last_login |-> None]
        rq == [Resp("register", 0, "") EXCEPT !.email = Some(email),
                                              !.password = Some(password)]
    IN  /\ IF IsSome(existing_user)
           THEN /\ resp' = [rq EXCEPT !.status = 400,
                                      !.detail = "User with this email already exists"]
                /\ UNCHANGED users
           ELSE register_write(rq, new_user)
        /\ UNCHANGED <<categories, expenses, nextid, now, ticks, session, nstates, issued, calls>>

(* POST /auth/register up to the query for the e-mail: a request that finds *)
(* no user goes on to insert, and waits in calls with the row it will add   *)
RegisterQuery(email, username, password, salt) ==
    LET existing_user == user_by_email(users, email)
        new_user == [email |-> email, username |-> username,
                     hashed_password |-> Some(hash_password(password, salt)),
                     is_active |-> TRUE, is_verified |-> FALSE,
                     google_id |-> None, provider |-> "local",
                     avatar_url |-> None, last_login |-> None]
        rq == [Resp("register", 0, "") EXCEPT !.email = Some(email),
                                              !.password = Some(password)]
        free == {i \in 1..MaxCalls : \A c \in calls : c.id # i}
    IN  /\ IF IsSome(existing_user)
           THEN /\ resp' = [rq EXCEPT !.status = 400,
                                      !.detail = "User with this email already exists"]
                /\ UNCHANGED calls
           ELSE /\ free # {}
                /\ calls' = calls \cup {[id |-> CHOOSE i \in free : \A k \in free : i <= k,
                                         op |-> "register", rq |-> rq, row |-> new_user]}
                /\ UNCHANGED resp
        /\ UNCHANGED <<users, categories, expenses, nextid, now, ticks, session, nstates,
                       issued>>

(* A waiting register request adds its row and commits *)
RegisterCommit(c) ==
    /\ c \in calls
    /\ c.op = "register"
    /\ calls' = calls \ {c}
    /\ register_write(c.rq, c.row)
    /\ UNCHANGED <<categories, expenses, nextid, now, ticks, session, nstates, issued>>

(* A mutant of login_failure: an unknown e-mail is told apart *)
login_failure_telling(reason) ==
    IF reason = "user not found"
    THEN [status |-> 404, detail |-> "User not found"]
    ELSE [status |-> 401, detail |-> "Invalid email or password"]

(* The HTTPException of a refused login; reason is what the log line says *)
login_failure(reason) == [status |-> 401, detail |-> "Invalid email or password"]

(* POST /auth/login *)
(* A mutant of Login: a deactivated user is refused *)
Login_activeonly(email, password) ==
    LET user == user_by_email(users, email)
        rq == [Resp("login", 0, "") EXCEPT !.email = Some(email),
                                           !.password = Some(password)]
        denied(reason) == [rq EXCEPT !.status = login_failure(reason).status,
                                     !.detail = login_failure(reason).detail]
    IN  /\ IF IsNone(user)
           THEN resp' = denied("user not found") /\ UNCHANGED <<users, issued>>
           ELSE IF ~users[Get(user)].is_active
           THEN resp' = denied("inactive user") /\ UNCHANGED <<users, issued>>
           ELSE IF IsNone(users[Get(user)].hashed_password)
           THEN resp' = denied("invalid password") /\ UNCHANGED <<users, issued>>
           ELSE LET ok == verify_password(password, Get(users[Get(user)].hashed_password))
                    rec == Issue(Get(user), users[Get(user)].email, now)
                IN  IF ok.exc # "none"
                    THEN /\ resp' = [rq EXCEPT !.status = 500,
                                               !.detail = "Internal Server Error"]
                         /\ UNCHANGED <<users, issued>>
                    ELSE IF ~Get(ok.ret)
                    THEN resp' = denied("invalid password") /\ UNCHANGED <<users, issued>>
                    ELSE /\ CanIssue(rec)
                         /\ users' = [users EXCEPT ![Get(user)].last_login = Some(now)]
                         /\ issued' = issued \cup {rec}
                         /\ resp' = [rq EXCEPT !.status = 200, !.user_id = Get(user),
                                               !.tokens = Some(rec.pair)]
        /\ UNCHANGED <<categories, expenses, nextid, now, ticks, session, nstates, calls>>

(* POST /auth/login *)
Login(email, password) ==
    LET user == user_by_email(users, email)
        rq == [Resp("login", 0, "") EXCEPT !.email = Some(email),
                                           !.password = Some(password)]
        denied(reason) == [rq EXCEPT !.status = login_failure(reason).status,
                                     !.detail = login_failure(reason).detail]
    IN  /\ IF IsNone(user)
           THEN resp' = denied("user not found") /\ UNCHANGED <<users, issued>>
           ELSE IF IsNone(users[Get(user)].hashed_password)
           THEN resp' = denied("invalid password") /\ UNCHANGED <<users, issued>>
           ELSE LET ok == verify_password(password, Get(users[Get(user)].hashed_password))
                    rec == Issue(Get(user), users[Get(user)].email, now)
                IN  IF ok.exc # "none"
                    THEN /\ resp' = [rq EXCEPT !.status = 500,
                                               !.detail = "Internal Server Error"]
                         /\ UNCHANGED <<users, issued>>
                    ELSE IF ~Get(ok.ret)
                    THEN resp' = denied("invalid password") /\ UNCHANGED <<users, issued>>
                    ELSE /\ CanIssue(rec)
                         /\ users' = [users EXCEPT ![Get(user)].last_login = Some(now)]
                         /\ issued' = issued \cup {rec}
                         /\ resp' = [rq EXCEPT !.status = 200, !.user_id = Get(user),
                                               !.tokens = Some(rec.pair)]
        /\ UNCHANGED <<categories, expenses, nextid, now, ticks, session, nstates, calls>>

(* A mutant of RefreshWithin: refresh tokens rotate, only the refresh token  *)
(* of the user's latest pair is accepted                                    *)
RefreshWithin_rotating(token, cap) ==
    LET token_data == verify_token(token, "refresh", now).ret
        rq == [Resp("refresh", 0, "") EXCEPT !.cred = Some(token)]
        latest == \A q \in issued :
                     q.user_id = Get(token_data).user_id =>
                        \E r \in issued : r.pair.refresh_token = token /\ r.iat >= q.iat
    IN  /\ IF IsNone(token_data) \/ ~latest
           THEN /\ resp' = [rq EXCEPT !.status = 401, !.detail = "Invalid refresh token"]
                /\ UNCHANGED issued
           ELSE LET user == db_get_user(users, Get(token_data).user_id)
                IN  IF IsNone(user)
                    THEN /\ resp' = [rq EXCEPT !.status = 401, !.detail = "User not found"]
                         /\ UNCHANGED issued
                    ELSE LET rec == Issue(Get(user), users[Get(user)].email, now)
                         IN  /\ rec \in issued \/ Cardinality(issued) < cap
                             /\ issued' = issued \cup {rec}
                             /\ resp' = [rq EXCEPT !.status = 200, !.user_id = Get(user),
                                                   !.tokens = Some(rec.pair)]
        /\ UNCHANGED <<users, categories, expenses, nextid, now, ticks, session, nstates,
                       calls>>

(* A mutant of RefreshWithin: the new pair is built from the old token's    *)
(* claims, the user row is not reloaded                                     *)
RefreshWithin_fromclaims(token, cap) ==
    LET token_data == verify_token(token, "refresh", now).ret
        rq == [Resp("refresh", 0, "") EXCEPT !.cred = Some(token)]
    IN  /\ IF IsNone(token_data)
           THEN /\ resp' = [rq EXCEPT !.status = 401, !.detail = "Invalid refresh token"]
                /\ UNCHANGED issued
           ELSE LET rec == Issue(Get(token_data).user_id, Get(token_data).email, now)
                IN  /\ rec \in issued \/ Cardinality(issued) < cap
                    /\ issued' = issued \cup {rec}
                    /\ resp' = [rq EXCEPT !.status = 200,
                                          !.user_id = Get(token_data).user_id,
                                          !.tokens = Some(rec.pair)]
        /\ UNCHANGED <<users, categories, expenses, nextid, now, ticks, session, nstates,
                       calls>>

(* POST /auth/refresh, while fewer than cap pairs have been handed out *)
RefreshWithin(token, cap) ==
    LET verified == verify_token(token, "refresh", now)
        token_data == verified.ret
        rq == [Resp("refresh", 0, "") EXCEPT !.cred = Some(token)]
    IN  /\ IF verified.exc # "none"
           THEN /\ resp' = [rq EXCEPT !.status = 500, !.detail = "Internal Server Error"]
                /\ UNCHANGED issued
           ELSE IF IsNone(token_data)
           THEN /\ resp' = [rq EXCEPT !.status = 401, !.detail = "Invalid refresh token"]
                /\ UNCHANGED issued
           ELSE LET user == db_get_user(users, Get(token_data).user_id)
                IN  IF IsNone(user)
                    THEN /\ resp' = [rq EXCEPT !.status = 401, !.detail = "User not found"]
                         /\ UNCHANGED issued
                    ELSE LET rec == Issue(Get(user), users[Get(user)].email, now)
                         IN  /\ rec \in issued \/ Cardinality(issued) < cap
                             /\ issued' = issued \cup {rec}
                             /\ resp' = [rq EXCEPT !.status = 200, !.user_id = Get(user),
                                                   !.tokens = Some(rec.pair)]
        /\ UNCHANGED <<users, categories, expenses, nextid, now, ticks, session, nstates,
                       calls>>

(* POST /auth/refresh *)
Refresh(token) == RefreshWithin(token, MaxIssued)

(* A mutant of Logout: logging out disables the account *)
Logout_disabling(credentials) ==
    LET current_user == get_current_user(credentials, users, now)
    IN  /\ resp' = [Resp("logout", current_user.status, current_user.detail)
                       EXCEPT !.cred = credentials, !.user_id = current_user.user_id]
        /\ users' = IF current_user.status = 200
                    THEN [users EXCEPT ![current_user.user_id].is_active = FALSE]
                    ELSE users
        /\ UNCHANGED <<categories, expenses, nextid, now, ticks, session, nstates, issued,
                       calls>>

(* An endpoint whose only work is the CurrentUser dependency and a read of  *)
(* the resolved user: /auth/me, /auth/token-info, /auth/logout              *)
Resolved(op, credentials) ==
    /\ \E current_user \in {get_current_user(credentials, users, now)} :
        LET rq == [Resp(op, current_user.status, current_user.detail)
                      EXCEPT !.cred = credentials]
        IN  resp' = IF current_user.status = 200
                    THEN [rq EXCEPT !.user_id = current_user.user_id,
                                    !.email = Some(users[current_user.user_id].email)]
                    ELSE rq
    /\ UNCHANGED <<users, categories, expenses, nextid, now, ticks, session,
                   nstates, issued, calls>>

(* GET /auth/me *)
Me(credentials) == Resolved("me", credentials)

(* GET /auth/token-info *)
TokenInfo(credentials) == Resolved("token-info", credentials)

(* POST /auth/logout *)
Logout(credentials) == Resolved("logout", credentials)

(* A mutant of GoogleLoginWithin: a state already pending is kept *)
GoogleLoginWithin_keeping(built, cap) ==
    /\ IF ~built
       THEN /\ resp' = Resp("google_login", 500, "Failed to initiate Google OAuth")
            /\ UNCHANGED <<session, nstates>>
       ELSE /\ nstates < cap
            /\ nstates' = nstates + 1
            /\ session' = IF IsSome(session.oauth_state) THEN session
                          ELSE [session EXCEPT !.oauth_state = Some(nstates + 1)]
            /\ resp' = [Resp("google_login", 200, "") EXCEPT !.state = Some(nstates + 1)]
    /\ UNCHANGED <<users, categories, expenses, nextid, now, ticks, issued, calls>>

(* GET /auth/google.  built is false when get_google_auth_url raises.       *)
(* The state is a fresh random string: the model numbers them, up to cap.   *)
GoogleLoginWithin(built, cap) ==
    /\ IF ~built
       THEN /\ resp' = Resp("google_login", 500, "Failed to initiate Google OAuth")
            /\ UNCHANGED <<session, nstates>>
       ELSE /\ nstates < cap
            /\ nstates' = nstates + 1
            /\ session' = [session EXCEPT !.oauth_state = Some(nstates + 1)]
            /\ resp' = [Resp("google_login", 200, "") EXCEPT !.state = Some(nstates + 1)]
    /\ UNCHANGED <<users, categories, expenses, nextid, now, ticks, issued, calls>>

GoogleLogin(built) == GoogleLoginWithin(built, MaxFlows)

(* A mutant of state_valid: any state passes while one is stored *)
state_valid_lax(stored_state, state) == IsSome(stored_state)

(* The CSRF check of the callback: not (not stored_state or stored_state != state) *)
state_valid(stored_state, state) == ~(IsNone(stored_state) \/ stored_state # state)

(* google_callback after the query for the profile's e-mail returned found: *)
(* the new or linked row and its commit, last_login and the token pair.     *)
(* An exception that no handler catches is answered 500 above the session   *)
(* middleware: the session is then not written back, and nothing is         *)
(* committed.  Any other response writes the request's session, written,    *)
(* back to the browser.                                                     *)
callback_write(rq, google_user, found, written) ==
        LET created == [email |-> google_user.email,
                        username |-> Some(LocalPart(google_user.email)),
                        hashed_password |-> None,
                        is_active |-> TRUE,
                        is_verified |-> google_user.verified_email,
                        google_id |-> Some(google_user.id),
                        provider |-> "google",
                        avatar_url |-> google_user.picture,
                        last_login |-> None]
            db2 == IF IsNone(found) THEN Append(users, created)
                   ELSE IF IsNone(users[Get(found)].google_id)
                   THEN [users EXCEPT
                            ![Get(found)].google_id = Some(google_user.id),
                            ![Get(found)].provider = "google",
                            ![Get(found)].avatar_url = google_user.picture,
                            ![Get(found)].is_verified = google_user.verified_email]
                   ELSE users
            user == IF IsNone(found) THEN Len(db2) ELSE Get(found)
            rec == Issue(user, db2[user].email, now)
            asked == [rq EXCEPT !.email = Some(google_user.email)]
        IN  IF ~UniqueOk(db2)           \* IntegrityError at db.commit()
            THEN /\ resp' = [asked EXCEPT !.status = 500,
                                          !.detail = "Internal Server Error"]
                 /\ UNCHANGED <<users, session, issued>>
            ELSE /\ IsNone(found) => Len(users) < MaxUsers
                 /\ CanIssue(rec)
                 /\ users' = [db2 EXCEPT ![user].last_login = Some(now)]
                 /\ session' = written
                 /\ issued' = issued \cup {rec}
                 /\ resp' = [asked EXCEPT !.status = 200, !.user_id = user,
                                          !.tokens = Some(rec.pair)]

(* google_callback from line 254 on: the provider's answer info, then the   *)
(* query for the profile's e-mail and what follows it                       *)
callback_resolve(rq, info, written) ==
    LET crash == /\ resp' = [rq EXCEPT !.status = 500, !.detail = "Internal Server Error"]
                 /\ UNCHANGED <<users, session, issued>>
    IN  IF info.exc # "none" THEN crash
        ELSE IF IsNone(info.ret)
        THEN /\ resp' = [rq EXCEPT
                            !.status = 400,
                            !.detail = "Failed to get user information from Google"]
             /\ session' = written
             /\ UNCHANGED <<users, issued>>
        ELSE callback_write(rq, Get(info.ret),
                            user_by_email(users, Get(info.ret).email), written)

(* GET /auth/google/callback, handled from arrival to response in one step *)
GoogleCallback(code, state, pr) ==
    LET rq == [Resp("google_callback", 0, "") EXCEPT !.code = code, !.state = state]
        stored_state == session.oauth_state
        popped == [session EXCEPT !.oauth_state = None]
    IN  /\ IF IsNone(code) \/ Get(code) = ""
           THEN /\ resp' = [rq EXCEPT !.status = 400,
                                      !.detail = "Authorization code not provided"]
                /\ UNCHANGED <<users, session, issued>>
           ELSE IF ~state_valid(stored_state, state)
           THEN /\ resp' = [rq EXCEPT !.status = 400, !.detail = "Invalid state parameter"]
                /\ UNCHANGED <<users, session, issued>>
           ELSE callback_resolve(rq, get_google_user_info(Get(code), Get(state), pr),
                                 popped)
        /\ UNCHANGED <<categories, expenses, nextid, now, ticks, nstates, calls>>

(* GET /auth/google/callback arrives: the middleware loads the request's    *)
(* session from the browser's cookie and the handler runs to its first      *)
(* await, get_google_user_info.  A request that gets there waits in calls   *)
(* with its own copy of the session, oauth_state popped.                    *)
CallbackBegin(code, state) ==
    LET rq == [Resp("google_callback", 0, "") EXCEPT !.code = code, !.state = state]
        stored_state == session.oauth_state
        popped == [session EXCEPT !.oauth_state = None]
        free == {i \in 1..MaxCalls : \A c \in calls : c.id # i}
    IN  /\ IF IsNone(code) \/ Get(code) = ""
           THEN /\ resp' = [rq EXCEPT !.status = 400,
                                      !.detail = "Authorization code not provided"]
                /\ UNCHANGED calls
           ELSE IF ~state_valid(stored_state, state)
           THEN /\ resp' = [rq EXCEPT !.status = 400, !.detail = "Invalid state parameter"]
                /\ UNCHANGED calls
           ELSE /\ free # {}
                /\ calls' = calls \cup {[id |-> CHOOSE i \in free : \A k \in free : i <= k,
                                         code |-> code, state |-> state,
                                         session |-> popped]}
                /\ UNCHANGED resp
        /\ UNCHANGED <<users, categories, expenses, nextid, now, ticks, session, nstates,
                       issued>>

(* The provider answers a waiting callback request, which runs to its end *)
CallbackFinish(c, pr) ==
    /\ c \in calls
    /\ calls' = calls \ {c}
    /\ callback_resolve([Resp("google_callback", 0, "")
                            EXCEPT !.code = c.code, !.state = c.state],
                        get_google_user_info(Get(c.code), Get(c.state), pr),
                        c.session)
    /\ UNCHANGED <<categories, expenses, nextid, now, ticks, nstates>>

(* GET /auth/google/callback from arrival to the query for the profile's    *)
(* e-mail: a request that got a profile waits in calls with what the query  *)
(* returned and its own copy of the session, oauth_state popped             *)
CallbackQuery(code, state, pr) ==
    LET rq == [Resp("google_callback", 0, "") EXCEPT !.code = code, !.state = state]
        info == get_google_user_info(Get(code), Get(state), pr)
        popped == [session EXCEPT !.oauth_state = None]
        free == {i \in 1..MaxCalls : \A c \in calls : c.id # i}
    IN  /\ IsSome(code)
        /\ state_valid(session.oauth_state, state)
        /\ info.exc = "none"
        /\ IsSome(info.ret)
        /\ free # {}
        /\ calls' = calls \cup {[id |-> CHOOSE i \in free : \A k \in free : i <= k,
                                 op |-> "google_callback", rq |-> rq,
                                 google_user |-> Get(info.ret),
                                 found |-> user_by_email(users, Get(info.ret).email),
                                 session |-> popped]}
        /\ UNCHANGED <<users, categories, expenses, nextid, now, ticks, session, nstates,
                       issued, resp>>

(* A waiting callback request writes its row, commits and answers *)
CallbackCommit(c) ==
    /\ c \in calls
    /\ c.op = "google_callback"
    /\ calls' = calls \ {c}
    /\ callback_write(c.rq, c.google_user, c.found, c.session)
    /\ UNCHANGED <<categories, expenses, nextid, now, ticks, nstates>>

-----------------------------------------------------------------------------
(* Expenses and categories (routers/expenses.py, routers/categories.py).    *)
(* Every endpoint resolves CurrentActiveUser before its body runs.          *)

RECURSIVE SumAmount(_)
SumAmount(rows) ==
    IF rows = {} THEN 0
    ELSE LET r == CHOOSE x \in rows : TRUE IN r.amount + SumAmount(rows \ {r})

(* db.get(Expense, id), db.get(Category, id) *)
db_get(table, id) ==
    IF \E r \in table : r.id = id THEN Some(CHOOSE r \in table : r.id = id) ELSE None

(* Foreign keys of the expenses table, checked by the store at commit *)
ForeignKeysOk(exps, cats, db) ==
    \A e \in exps :
        /\ IsSome(e.owner_id) => Get(e.owner_id) \in UserIds(db)
        /\ IsSome(e.category_id) => \E c \in cats : c.id = Get(e.category_id)

(* The unique constraint of the categories table: name *)
CategoryNamesOk(cats) == \A c, d \in cats : c.id # d.id => c.name # d.name

(* A protected request: the dependency's failure is the response, else the  *)
(* handler body decides                                                     *)
Requested(op, credentials, current_user) ==
    [Resp(op, current_user.status, current_user.detail)
        EXCEPT !.cred = credentials, !.user_id = current_user.user_id]

Protected(op, credentials) ==
    Requested(op, credentials, get_current_active_user(credentials, users, now))

(* The request with its path, query and body parameters *)
With(rq, args) == [rq EXCEPT !.args = args]

(* The dependency raised: its error is the response and no body runs *)
Refused(rq) ==
    /\ resp' = rq
    /\ UNCHANGED <<categories, expenses, nextid>>

Frame == UNCHANGED <<users, now, ticks, session, nstates, issued, calls>>

(* A mutant of GetAllExpenses: the query is not restricted to the caller *)
GetAllExpenses_everyone(credentials, category_id) ==
    /\ \E rq \in {With(Protected("get_all_expenses", credentials), [category_id |-> category_id])} :
           IF rq.status # 200 THEN Refused(rq)
           ELSE
            /\ resp' = [rq EXCEPT !.body =
                          {e \in expenses :
                              IsSome(category_id) => e.category_id = category_id}]
            /\ UNCHANGED <<categories, expenses, nextid>>
    /\ Frame

(* GET /expenses *)
GetAllExpenses(credentials, category_id) ==
    /\ \E rq \in {With(Protected("get_all_expenses", credentials), [category_id |-> category_id])} :
           IF rq.status # 200 THEN Refused(rq)
           ELSE
            /\ resp' = [rq EXCEPT !.body =
                          {e \in expenses :
                              /\ e.owner_id = Some(rq.user_id)
                              /\ IsSome(category_id) => e.category_id = category_id}]
            /\ UNCHANGED <<categories, expenses, nextid>>
    /\ Frame

(* A mutant of GetExpenseStatistics: the conditions leave the caller out *)
GetExpenseStatistics_everyone(credentials, start_date, end_date, category_id) ==
    /\ \E rq \in {With(Protected("get_expense_statistics", credentials), [start_date |-> start_date, end_date |-> end_date,
                     category_id |-> category_id])} :
           IF rq.status # 200 THEN Refused(rq)
           ELSE
            LET rows == {e \in expenses :
                            /\ IsSome(start_date) => e.date >= Get(start_date)
                            /\ IsSome(end_date) => e.date <= Get(end_date)
                            /\ IsSome(category_id) => e.category_id = category_id}
            IN  /\ resp' = [rq EXCEPT !.body =
                              {[total_amount |-> SumAmount(rows),
                                total_expenses |-> Cardinality(rows)]}]
                /\ UNCHANGED <<categories, expenses, nextid>>
    /\ Frame

(* GET /expenses/statistics *)
GetExpenseStatistics(credentials, start_date, end_date, category_id) ==
    /\ \E rq \in {With(Protected("get_expense_statistics", credentials), [start_date |-> start_date, end_date |-> end_date,
                     category_id |-> category_id])} :
           IF rq.status # 200 THEN Refused(rq)
           ELSE
            LET rows == {e \in expenses :
                            /\ e.owner_id = Some(rq.user_id)
                            /\ IsSome(start_date) => e.date >= Get(start_date)
                            /\ IsSome(end_date) => e.date <= Get(end_date)
                            /\ IsSome(category_id) => e.category_id = category_id}
            IN  /\ resp' = [rq EXCEPT !.body =
                              {[total_amount |-> SumAmount(rows),
                                total_expenses |-> Cardinality(rows)]}]
                /\ UNCHANGED <<categories, expenses, nextid>>
    /\ Frame

(* GET /expenses/{expense_id} *)
GetExpense(credentials, expense_id) ==
    /\ \E rq \in {With(Protected("get_expense", credentials), [expense_id |-> expense_id])} :
           IF rq.status # 200 THEN Refused(rq)
           ELSE
            LET expense == db_get(expenses, expense_id)
            IN  /\ resp' = IF IsNone(expense)
                           THEN [rq EXCEPT !.status = 404, !.detail = "Expense not found"]
                           ELSE IF Get(expense).owner_id # Some(rq.user_id)
                           THEN [rq EXCEPT !.status = 403,
                                           !.detail = "You can only access your own expenses"]
                           ELSE [rq EXCEPT !.body = {Get(expense)}]
                /\ UNCHANGED <<categories, expenses, nextid>>
    /\ Frame

(* POST /expenses; cap bounds the ids the sequence hands out *)
CreateExpenseWithin(credentials, name, amount, currency, category_id, cap) ==
    /\ \E rq \in {With(Protected("create_expense", credentials), [amount |-> amount, category_id |-> category_id])} :
           IF rq.status # 200 THEN Refused(rq)
           ELSE
            LET new_expense == [id |-> nextid.expense, name |-> name, amount |-> amount,
                                currency |-> currency, category_id |-> Some(category_id),
                                owner_id |-> Some(rq.user_id), date |-> now]
            IN  IF category_id # 0 /\ IsNone(db_get(categories, category_id))
                THEN /\ resp' = [rq EXCEPT !.status = 400, !.detail = "Category not found"]
                     /\ UNCHANGED <<categories, expenses, nextid>>
                ELSE IF ~ForeignKeysOk(expenses \cup {new_expense}, categories, users)
                THEN /\ resp' = [rq EXCEPT !.status = 500, !.detail = "Internal Server Error"]
                     /\ UNCHANGED <<categories, expenses, nextid>>
                ELSE /\ nextid.expense <= cap
                     /\ expenses' = expenses \cup {new_expense}
                     /\ nextid' = [nextid EXCEPT !.expense = @ + 1]
                     /\ resp' = [rq EXCEPT !.status = 201, !.body = {new_expense}]
                     /\ UNCHANGED categories
    /\ Frame

CreateExpense(credentials, name, amount, currency, category_id) ==
    CreateExpenseWithin(credentials, name, amount, currency, category_id, MaxExpenses)

(* A mutant of ApplyExpenseUpdate: an owner_id in the body is ignored *)
ApplyExpenseUpdate_keepowner(expense, upd) ==
    [expense EXCEPT
        !.name = IF IsSome(upd.name) THEN Get(upd.name) ELSE @,
        !.amount = IF IsSome(upd.amount) THEN Get(upd.amount) ELSE @,
        !.currency = IF IsSome(upd.currency) THEN Get(upd.currency) ELSE @,
        !.category_id = IF IsSome(upd.category_id) THEN Get(upd.category_id) ELSE @]

(* update_data.items(): the fields that were set; <<>> for a field means    *)
(* unset, <<v>> set to v, and v is itself optional for the two id fields    *)
ApplyExpenseUpdate(expense, upd) ==
    [expense EXCEPT
        !.name = IF IsSome(upd.name) THEN Get(upd.name) ELSE @,
        !.amount = IF IsSome(upd.amount) THEN Get(upd.amount) ELSE @,
        !.currency = IF IsSome(upd.currency) THEN Get(upd.currency) ELSE @,
        !.category_id = IF IsSome(upd.category_id) THEN Get(upd.category_id) ELSE @,
        !.owner_id = IF IsSome(upd.owner_id) THEN Get(upd.owner_id) ELSE @]

(* A mutant of UpdateExpense: ownership is not checked *)
UpdateExpense_anyone(credentials, expense_id, upd) ==
    /\ \E rq \in {With(Protected("update_expense", credentials), [expense_id |-> expense_id, upd |-> upd])} :
           IF rq.status # 200 THEN Refused(rq)
           ELSE
            LET expense == db_get(expenses, expense_id)
            IN  IF IsNone(expense)
                THEN /\ resp' = [rq EXCEPT !.status = 404, !.detail = "Expense not found"]
                     /\ UNCHANGED <<categories, expenses, nextid>>
                ELSE LET changed == ApplyExpenseUpdate(Get(expense), upd)
                         exps2 == (expenses \ {Get(expense)}) \cup {changed}
                     IN  IF ~ForeignKeysOk(exps2, categories, users)
                         THEN /\ resp' = [rq EXCEPT !.status = 500,
                                                    !.detail = "Internal Server Error"]
                              /\ UNCHANGED <<categories, expenses, nextid>>
                         ELSE /\ expenses' = exps2
                              /\ resp' = [rq EXCEPT !.body = {changed}]
                              /\ UNCHANGED <<categories, nextid>>
    /\ Frame

(* PUT /expenses/{expense_id} *)
UpdateExpense(credentials, expense_id, upd) ==
    /\ \E rq \in {With(Protected("update_expense", credentials), [expense_id |-> expense_id, upd |-> upd])} :
           IF rq.status # 200 THEN Refused(rq)
           ELSE
            LET expense == db_get(expenses, expense_id)
            IN  IF IsNone(expense)
                THEN /\ resp' = [rq EXCEPT !.status = 404, !.detail = "Expense not found"]
                     /\ UNCHANGED <<categories, expenses, nextid>>
                ELSE IF Get(expense).owner_id # Some(rq.user_id)
                THEN /\ resp' = [rq EXCEPT !.status = 403,
                                           !.detail = "You can only update your own expenses"]
                     /\ UNCHANGED <<categories, expenses, nextid>>
                ELSE LET changed == ApplyExpenseUpdate(Get(expense), upd)
                         exps2 == (expenses \ {Get(expense)}) \cup {changed}
                     IN  IF ~ForeignKeysOk(exps2, categories, users)
                         THEN /\ resp' = [rq EXCEPT !.status = 500,
                                                    !.detail = "Internal Server Error"]
                              /\ UNCHANGED <<categories, expenses, nextid>>
                         ELSE /\ expenses' = exps2
                              /\ resp' = [rq EXCEPT !.body = {changed}]
                              /\ UNCHANGED <<categories, nextid>>
    /\ Frame

(* DELETE /expenses/{expense_id} *)
DeleteExpense(credentials, expense_id) ==
    /\ \E rq \in {With(Protected("delete_expense", credentials), [expense_id |-> expense_id])} :
           IF rq.status # 200 THEN Refused(rq)
           ELSE
            LET expense == db_get(expenses, expense_id)
            IN  IF IsNone(expense)
                THEN /\ resp' = [rq EXCEPT !.status = 404, !.detail = "Expense not found"]
                     /\ UNCHANGED <<categories, expenses, nextid>>
                ELSE IF Get(expense).owner_id # Some(rq.user_id)
                THEN /\ resp' = [rq EXCEPT !.status = 403,
                                           !.detail = "You can only delete your own expenses"]
                     /\ UNCHANGED <<categories, expenses, nextid>>
                ELSE /\ expenses' = expenses \ {Get(expense)}
                     /\ resp' = [rq EXCEPT !.status = 204]
                     /\ UNCHANGED <<categories, nextid>>
    /\ Frame

(* A category row with its usage statistics over every user's expenses *)
WithStats(c) ==
    LET rows == {e \in expenses : e.category_id = Some(c.id)}
    IN  [id |-> c.id, name |-> c.name,
         expense_count |-> Cardinality(rows), total_amount |-> SumAmount(rows)]

(* GET /categories/ *)
GetCategories(credentials, include_stats) ==
    /\ \E rq \in {Protected("get_categories", credentials)} :
           IF rq.status # 200 THEN Refused(rq)
           ELSE
            /\ resp' = [rq EXCEPT !.body = IF include_stats
                                           THEN {WithStats(c) : c \in categories}
                                           ELSE categories]
            /\ UNCHANGED <<categories, expenses, nextid>>
    /\ Frame

(* GET /categories/{category_id} *)
GetCategory(credentials, category_id) ==
    /\ \E rq \in {Protected("get_category", credentials)} :
           IF rq.status # 200 THEN Refused(rq)
           ELSE
            LET result == db_get(categories, category_id)
            IN  /\ resp' = IF IsNone(result)
                           THEN [rq EXCEPT !.status = 404, !.detail = "Category not found"]
                           ELSE [rq EXCEPT !.body = {WithStats(Get(result))}]
                /\ UNCHANGED <<categories, expenses, nextid>>
    /\ Frame

(* POST /categories/ *)
CreateCategory(credentials, name) ==
    /\ \E rq \in {Protected("create_category", credentials)} :
           IF rq.status # 200 THEN Refused(rq)
           ELSE
            LET db_category == [id |-> nextid.category, name |-> name]
            IN  IF \E c \in categories : c.name = name
                THEN /\ resp' = [rq EXCEPT !.status = 400,
                                           !.detail = "Category already exists"]
                     /\ UNCHANGED <<categories, expenses, nextid>>
                ELSE /\ nextid.category <= MaxCategories
                     /\ categories' = categories \cup {db_category}
                     /\ nextid' = [nextid EXCEPT !.category = @ + 1]
                     /\ resp' = [rq EXCEPT !.status = 201, !.body = {db_category}]
                     /\ UNCHANGED expenses
    /\ Frame

(* PUT /categories/{category_id}; name is <<>> when not in the update *)
UpdateCategory(credentials, category_id, name) ==
    /\ \E rq \in {Protected("update_category", credentials)} :
           IF rq.status # 200 THEN Refused(rq)
           ELSE
            LET category == db_get(categories, category_id)
            IN  IF IsNone(category)
                THEN /\ resp' = [rq EXCEPT !.status = 404, !.detail = "Category not found"]
                     /\ UNCHANGED <<categories, expenses, nextid>>
                ELSE IF /\ IsSome(name)
                        /\ \E c \in categories : c.name = Get(name) /\ c.id # category_id
                THEN /\ resp' = [rq EXCEPT !.status = 400,
                                           !.detail = "Category already exists"]
                     /\ UNCHANGED <<categories, expenses, nextid>>
                ELSE LET changed == IF IsSome(name)
                                    THEN [Get(category) EXCEPT !.name = Get(name)]
                                    ELSE Get(category)
                     IN  /\ categories' = (categories \ {Get(category)}) \cup {changed}
                         /\ resp' = [rq EXCEPT !.body = {changed}]
                         /\ UNCHANGED <<expenses, nextid>>
    /\ Frame

(* DELETE /categories/{category_id} *)
DeleteCategory(credentials, category_id, force) ==
    /\ \E rq \in {With(Protected("delete_category", credentials), [category_id |-> category_id, force |-> force])} :
           IF rq.status # 200 THEN Refused(rq)
           ELSE
            LET category == db_get(categories, category_id)
                referring == {e \in expenses : e.category_id = Some(category_id)}
                expense_count == Cardinality(referring)
            IN  IF IsNone(category)
                THEN /\ resp' = [rq EXCEPT !.status = 404, !.detail = "Category not found"]
                     /\ UNCHANGED <<categories, expenses, nextid>>
                ELSE IF expense_count > 0 /\ ~force
                THEN /\ resp' = [rq EXCEPT !.status = 400,
                                           !.detail = "Cannot delete category"]
                     /\ UNCHANGED <<categories, expenses, nextid>>
                ELSE /\ expenses' = IF expense_count > 0 /\ force
                                    THEN (expenses \ referring) \cup
                                         {[e EXCEPT !.category_id = None] : e \in referring}
                                    ELSE expenses
                     /\ categories' = categories \ {Get(category)}
                     /\ resp' = [rq EXCEPT !.status = 204]
                     /\ UNCHANGED nextid
    /\ Frame

(* GET /categories/{category_id}/expenses *)
GetCategoryExpenses(credentials, category_id) ==
    /\ \E rq \in {Protected("get_category_expenses", credentials)} :
           IF rq.status # 200 THEN Refused(rq)
           ELSE
            LET category == db_get(categories, category_id)
            IN  /\ resp' = IF IsNone(category)
                           THEN [rq EXCEPT !.status = 404, !.detail = "Category not found"]
                           ELSE [rq EXCEPT !.body =
                                   {e \in expenses : /\ e.category_id = Some(category_id)
                                                     /\ e.owner_id = Some(rq.user_id)}]
                /\ UNCHANGED <<categories, expenses, nextid>>
    /\ Frame

-----------------------------------------------------------------------------
(* Environment *)

(* Time passes *)
Tick(d) ==
    /\ ticks < MaxTicks
    /\ ticks' = ticks + 1
    /\ now' = now + d
    /\ UNCHANGED <<users, categories, expenses, nextid, session, nstates, issued, calls, resp>>

(* The is_active column of a user row is changed in the store *)
SetActive(id, flag) ==
    /\ id \in UserIds(users)
    /\ users[id].is_active # flag
    /\ users' = [users EXCEPT ![id].is_active = flag]
    /\ UNCHANGED <<categories, expenses, nextid, now, ticks, session, nstates, issued, calls, resp>>

-----------------------------------------------------------------------------
(* Inputs *)

AccessTtl == JWT_ACCESS_TOKEN_EXPIRE_MINUTES * 60
RefreshTtl == JWT_REFRESH_TOKEN_EXPIRE_DAYS * 86400
TickSteps == {1, AccessTtl, AccessTtl + 1, RefreshTtl, RefreshTtl + 1}
FarFuture == (MaxTicks + 2) * RefreshTtl

Pw1 == <<"p", "w", "1">>
Pw2 == <<"p", "w", "2">>

EmailA == <<"a", "@", "x">>
EmailB == <<"b", "@", "x">>
Emails == {EmailA, EmailB}
Passwords == {Pw1, Pw2}

(* Two passwords longer than bcrypt's key that differ in their last byte *)
LongPasswordX == [i \in 1..BcryptMaxBytes |-> "a"] \o <<"x">>
LongPasswordY == [i \in 1..BcryptMaxBytes |-> "a"] \o <<"y">>
HashPasswords == Passwords \cup {LongPasswordX, LongPasswordY}

(* The row of the tests' user: hashed_password is the literal string        *)
(* "hashed_password", which is no bcrypt hash                               *)
TestUserEmail == <<"t", "@", "x">>
NotAHash == [ident |-> FALSE, salt |-> 0, pw |-> <<"h", "a", "s", "h", "e", "d">>]

Claims(sub, email, exp, type) == [sub |-> sub, email |-> email, exp |-> exp, type |-> type]
SubOf(n) == Some(JStr(str(n)))
MailOf(e) == Some(JStr(e))

(* Token strings no endpoint handed out *)
Malformed == [wf |-> FALSE, key |-> "", claims |-> Claims(None, None, None, None)]
ForgedTokens ==
    { Malformed,
      jwt_encode(Claims(SubOf(1), MailOf(EmailA), Some(FarFuture), Some("access")), "other-key"),
      jwt_encode(Claims(SubOf(1), MailOf(EmailA), Some(FarFuture), Some("refresh")), "other-key") }
    \cup
    { jwt_encode(c, JWT_SECRET_KEY) : c \in
        { Claims(SubOf(1), MailOf(EmailA), Some(FarFuture), None),
          Claims(SubOf(1), MailOf(EmailA), Some(FarFuture), Some("id")),
          Claims(None, MailOf(EmailA), Some(FarFuture), Some("access")),
          Claims(None, MailOf(EmailA), Some(FarFuture), Some("refresh")),
          Claims(Some(JStr(<<"o", "n", "e">>)), MailOf(EmailA), Some(FarFuture), Some("access")),
          Claims(Some(JStr(<<"o", "n", "e">>)), MailOf(EmailA), Some(FarFuture), Some("refresh")),
          Claims(Some(JStr(<<>>)), MailOf(EmailA), Some(FarFuture), Some("access")),
          Claims(Some(JNum(1)), MailOf(EmailA), Some(FarFuture), Some("access")),
          Claims(SubOf(1), None, Some(FarFuture), Some("access")),
          Claims(SubOf(1), None, Some(FarFuture), Some("refresh")),
          Claims(SubOf(1), Some(JNum(7)), Some(FarFuture), Some("access")),
          Claims(SubOf(MaxUsers + 1), MailOf(EmailA), Some(FarFuture), Some("access")),
          Claims(SubOf(MaxUsers + 1), MailOf(EmailA), Some(FarFuture), Some("refresh")) } }

IssuedTokens == UNION {{r.pair.access_token, r.pair.refresh_token} : r \in issued}

(* What the codec is tried on: every issued and every forged token *)
Tokens == IssuedTokens \cup ForgedTokens
Credentials == {None} \cup {Some(tk) : tk \in Tokens}

(* What the endpoints are tried on: issued tokens, a malformed string and a *)
(* signed access token whose subject is no user                             *)
Stranger == jwt_encode(Claims(SubOf(MaxUsers + 1), MailOf(EmailA), Some(FarFuture),
                              Some("access")), JWT_SECRET_KEY)
(* Correctly signed refresh tokens whose subject is no row of the store, and *)
(* whose e-mail claim is not the e-mail of the subject's row                *)
StrangerRefresh ==
    jwt_encode(Claims(SubOf(MaxUsers + 1), MailOf(EmailA), Some(FarFuture),
                      Some("refresh")), JWT_SECRET_KEY)
StaleMailRefresh ==
    jwt_encode(Claims(SubOf(1), MailOf(EmailB), Some(FarFuture), Some("refresh")),
               JWT_SECRET_KEY)
RefreshTokens == IssuedTokens \cup {Malformed, StrangerRefresh, StaleMailRefresh}

AuthTokens == IssuedTokens \cup {Malformed, Stranger}
AuthCredentials == {None} \cup {Some(tk) : tk \in AuthTokens}

Profile(email, gid) ==
    [token |-> "ok", userinfo |-> "ok", status |-> 200, body |-> "object",
     data |-> [id |-> Some(JStr(gid)), email |-> Some(email),
               picture |-> Some("pic"), verified_email |-> Some(TRUE)]]
ProviderAnswers ==
    { Profile(EmailA, "g-a"), Profile(EmailB, "g-b"),
      [Profile(EmailA, "g-a") EXCEPT !.token = "oauth_error"],
      [Profile(EmailA, "g-a") EXCEPT !.status = 401],
      [Profile(EmailA, "g-a") EXCEPT !.body = "not_json"],
      [Profile(EmailA, "g-a") EXCEPT !.data.id = None] }

AuthProviderAnswers ==
    { Profile(EmailA, "g-a"), Profile(EmailB, "g-b"),
      [Profile(EmailA, "g-a") EXCEPT !.token = "oauth_error"],
      [Profile(EmailA, "g-a") EXCEPT !.body = "not_json"] }

Codes == {None, Some("code")}
(* Usernames at registration: none, or the local part of EmailA *)
Usernames == {None, Some(LocalPart(EmailA))}
(* State parameters: none, one that was never generated (0), generated ones *)
States == {None} \cup {Some(n) : n \in 0..MaxFlows}

-----------------------------------------------------------------------------
Next ==
    \/ \E e \in Emails : Register(e, None, Pw1, 1)
    \/ \E e \in Emails, p \in Passwords : Login(e, p)
    \/ \E tk \in AuthTokens : Refresh(tk)
    \/ \E c \in AuthCredentials : Me(c)
    \/ \E b \in BOOLEAN : GoogleLogin(b)
    \/ \E c \in Codes, st \in States, pr \in AuthProviderAnswers : GoogleCallback(c, st, pr)
    \/ Tick(AccessTtl + 1)
    \/ \E id \in 1..MaxUsers, f \in BOOLEAN : SetActive(id, f)

Spec == Init /\ [][Next]_vars

(* The protected endpoints, called with issued access tokens *)
AccessCredentials == {Some(r.pair.access_token) : r \in issued}
NoUpdate == [name |-> None, amount |-> None, currency |-> None,
             category_id |-> None, owner_id |-> None]
ExpenseUpdates == { [NoUpdate EXCEPT !.amount = Some(25)] }
CategoryNames == {"food"}

NextGate ==
    \/ \E e \in Emails : Register(e, None, Pw1, 1)
    \/ Login(EmailA, Pw1)
    \/ \E id \in 1..MaxUsers, f \in BOOLEAN : SetActive(id, f)
    \/ \E c \in AccessCredentials : Me(c)
    \/ \E c \in AccessCredentials : TokenInfo(c)
    \/ \E c \in AccessCredentials : Logout(c)
    \/ \E c \in AccessCredentials : GetAllExpenses(c, None)
    \/ \E c \in AccessCredentials : GetExpenseStatistics(c, None, None, None)
    \/ \E c \in AccessCredentials, id \in 1..MaxExpenses : GetExpense(c, id)
    \/ \E c \in AccessCredentials, cat \in 1..MaxCategories :
          CreateExpense(c, "lunch", 10, "USD", cat)
    \/ \E c \in AccessCredentials, id \in 1..MaxExpenses, upd \in ExpenseUpdates :
          UpdateExpense(c, id, upd)
    \/ \E c \in AccessCredentials, id \in 1..MaxExpenses : DeleteExpense(c, id)
    \/ \E c \in AccessCredentials : GetCategories(c, TRUE)
    \/ \E c \in AccessCredentials, id \in 1..MaxCategories : GetCategory(c, id)
    \/ \E c \in AccessCredentials, n \in CategoryNames : CreateCategory(c, n)
    \/ \E c \in AccessCredentials, id \in 1..MaxCategories : UpdateCategory(c, id, Some("fuel"))
    \/ \E c \in AccessCredentials, id \in 1..MaxCategories, f \in BOOLEAN :
          DeleteCategory(c, id, f)
    \/ \E c \in AccessCredentials, id \in 1..MaxCategories : GetCategoryExpenses(c, id)

SpecGate == Init /\ [][NextGate]_vars

(* The OAuth flow with callback requests that overlap *)
NextRace ==
    \/ \E e \in Emails, u \in Usernames : Register(e, u, Pw1, 1)
    \/ GoogleLogin(TRUE)
    \/ \E c \in Codes, st \in States : CallbackBegin(c, st)
    \/ \E c \in calls, pr \in AuthProviderAnswers : CallbackFinish(c, pr)

SpecRace == Init /\ [][NextRace]_vars

(* Two users keeping expenses.  A caller presents the access token login    *)
(* hands that user at time 0.                                               *)
Callers == {Some(create_token_pair(i, users[i].email, 0).access_token) : i \in UserIds(users)}
Amounts == {10}
OwnerUpdates ==
    { [NoUpdate EXCEPT !.amount = Some(25)],
      [NoUpdate EXCEPT !.owner_id = Some(Some(1))],
      [NoUpdate EXCEPT !.owner_id = Some(Some(2))],
      [NoUpdate EXCEPT !.owner_id = Some(Some(MaxUsers + 1))] }

NextExpenses ==
    \/ \E e \in Emails : Register(e, None, Pw1, 1)
    \/ \E c \in Callers, n \in CategoryNames : CreateCategory(c, n)
    \/ \E c \in Callers, a \in Amounts, cat \in 0..MaxCategories :
          CreateExpenseWithin(c, "lunch", a, "USD", cat, MaxRows)
    \/ \E c \in Callers, id \in 1..MaxRows, upd \in OwnerUpdates : UpdateExpense(c, id, upd)
    \/ \E c \in Callers, id \in 1..MaxRows : DeleteExpense(c, id)
    \/ \E c \in Callers, cat \in {None, Some(1), Some(MaxCategories + 1)} :
          GetAllExpenses(c, cat)
    \/ \E c \in Callers : GetExpenseStatistics(c, None, None, None)
    \/ \E c \in Callers, id \in 1..MaxRows : GetExpense(c, id)

SpecExpenses == Init /\ [][NextExpenses]_vars

(* Expenses and the categories they refer to *)
CategoryUpdates ==
    { [NoUpdate EXCEPT !.category_id = Some(None)],
      [NoUpdate EXCEPT !.category_id = Some(Some(1))],
      [NoUpdate EXCEPT !.category_id = Some(Some(MaxCategories + 1))] }

NextCategories ==
    \/ \E e \in Emails : Register(e, None, Pw1, 1)
    \/ \E c \in Callers, n \in CategoryNames : CreateCategory(c, n)
    \/ \E c \in Callers, cat \in 0..(MaxCategories + 1) :
          CreateExpenseWithin(c, "lunch", 10, "USD", cat, MaxRows)
    \/ \E c \in Callers, id \in 1..MaxRows, upd \in CategoryUpdates : UpdateExpense(c, id, upd)
    \/ \E c \in Callers, id \in 1..MaxCategories, f \in BOOLEAN : DeleteCategory(c, id, f)

SpecCategories == Init /\ [][NextCategories]_vars

(* Sign-in flows started one after another in one browser session *)
StartedStates == {None} \cup {Some(n) : n \in 0..MaxStarts}
FlowAnswers == { Profile(EmailA, "g-a"), [Profile(EmailA, "g-a") EXCEPT !.token = "oauth_error"] }

NextFlow ==
    \/ \E b \in BOOLEAN : GoogleLoginWithin(b, MaxStarts)
    \/ \E c \in Codes, st \in StartedStates, pr \in FlowAnswers : GoogleCallback(c, st, pr)
    \/ Tick(1)

SpecFlow == Init /\ [][NextFlow]_vars

(* Google sign-ins meeting local accounts: the profile is unverified, or    *)
(* carries another Google id for a linked e-mail, or carries a Google id    *)
(* that is already linked to another e-mail                                 *)
LinkProfiles ==
    { Profile(EmailA, "g-a"),
      [Profile(EmailA, "g-a") EXCEPT !.data.verified_email = Some(FALSE)],
      Profile(EmailA, "g-z"),
      Profile(EmailB, "g-a") }

NextLink ==
    \/ \E e \in Emails : Register(e, None, Pw1, 1)
    \/ GoogleLoginWithin(TRUE, MaxStarts)
    \/ \E st \in StartedStates, pr \in LinkProfiles : GoogleCallback(Some("code"), st, pr)

SpecLink == Init /\ [][NextLink]_vars

(* Registrations and Google sign-ins for the same e-mail that overlap: each *)
(* request queries for the e-mail, and inserts and commits in a later step  *)
NextSignup ==
    \/ \E e \in Emails : RegisterQuery(e, None, Pw1, 1)
    \/ \E c \in calls : RegisterCommit(c)
    \/ GoogleLoginWithin(TRUE, MaxStarts)
    \/ \E st \in StartedStates, pr \in {Profile(EmailA, "g-a"), Profile(EmailB, "g-b")} :
          CallbackQuery(Some("code"), st, pr)
    \/ \E c \in calls : CallbackCommit(c)

SpecSignup == Init /\ [][NextSignup]_vars

(* The test_user fixture: a row added to an empty database, not through     *)
(* the register endpoint                                                    *)
test_user ==
    /\ Len(users) = 0
    /\ users' = <<[email |-> TestUserEmail, username |-> Some(LocalPart(TestUserEmail)),
                   hashed_password |-> Some(NotAHash),
                   is_active |-> TRUE, is_verified |-> TRUE,
                   google_id |-> None, provider |-> "local",
                   avatar_url |-> None, last_login |-> None]>>
    /\ UNCHANGED <<categories, expenses, nextid, now, ticks, session, nstates, issued,
                   calls, resp>>

(* The hasher under registrations and logins with short and long passwords; *)
(* every registration draws a salt no stored hash has                       *)
NextHash ==
    \/ test_user
    \/ \E e \in Emails, p \in HashPasswords : Register(e, None, p, Len(users) + 1)
    \/ \E e \in Emails \cup {TestUserEmail}, p \in HashPasswords : Login(e, p)
    \/ Tick(1)

SpecHash == Init /\ [][NextHash]_vars

(* Sessions of one registered user: login, refresh, use, logout *)
NextRefresh ==
    \/ Register(EmailA, None, Pw1, 1)
    \/ Login(EmailA, Pw1)
    \/ \E tk \in RefreshTokens : RefreshWithin(tk, MaxPairs)
    \/ \E c \in AccessCredentials : Me(c)
    \/ \E c \in AccessCredentials : Logout(c)
    \/ \E d \in {1, AccessTtl + 1, RefreshTtl + 1} : Tick(d)

SpecRefresh == Init /\ [][NextRefresh]_vars

(* The token codec under every token string, at the expiry boundaries *)
NextCodec ==
    \/ \E e \in Emails : Register(e, None, Pw1, 1)
    \/ \E e \in Emails : Login(e, Pw1)
    \/ \E tk \in Tokens : Refresh(tk)
    \/ \E c \in Credentials : Me(c)
    \/ \E d \in TickSteps : Tick(d)

SpecCodec == Init /\ [][NextCodec]_vars

-----------------------------------------------------------------------------
(* Properties of the token codec, checked under SpecCodec *)

Kinds == {"access", "refresh"}
UserIdSamples == {1, 2, 9, 10, 27, 100, 4096}
Subject(uid, e) == [sub |-> SubOf(uid), email |-> MailOf(e)]
Unexpired(tk) == IsSome(tk.claims.exp) /\ Get(tk.claims.exp) >= now

(* C1: a token made by create_refresh_token is rejected (None) when the     *)
(* expected kind is 'access', and a token made by create_access_token is    *)
(* rejected when the expected kind is 'refresh', for every user id and      *)
(* e-mail; so no refresh token passes get_current_user and /auth/refresh    *)
(* accepts no access token.                                                 *)
C1_TypeConfusionRejected ==
    /\ \A uid \in UserIdSamples, e \in Emails :
        /\ verify_token(create_refresh_token(Subject(uid, e), now), "access", now) = Ret(None)
        /\ verify_token(create_access_token(Subject(uid, e), now), "refresh", now) = Ret(None)
    /\ \A r \in issued :
        /\ verify_token(r.pair.refresh_token, "access", now) = Ret(None)
        /\ verify_token(r.pair.access_token, "refresh", now) = Ret(None)
        /\ get_current_user(Some(r.pair.refresh_token), users, now).status = 401
    /\ (resp.op = "me" /\ resp.status = 200) => Get(resp.cred).claims.type = Some("access")
    /\ (resp.op = "refresh" /\ resp.status = 200) => Get(resp.cred).claims.type = Some("refresh")

(* /auth/me was called with an issued, unexpired refresh token, and         *)
(* /auth/refresh with an issued, unexpired access token                     *)
C1_Witness ==
    /\ resp.op = "me"
    /\ resp.status = 401
    /\ \E r \in issued : resp.cred = Some(r.pair.refresh_token) /\ Unexpired(r.pair.refresh_token)

(* C2: verify_token returns None and never raises, for every token string   *)
(* with an invalid signature, malformed, past its expiry, with no 'type'    *)
(* claim or another kind than requested, with no 'sub' claim or one that    *)
(* does not parse as an integer, or with no 'email' claim.                  *)
Defective(tk, kind) ==
    \/ ~tk.wf
    \/ tk.key # JWT_SECRET_KEY
    \/ IsSome(tk.claims.exp) /\ Get(tk.claims.exp) < now
    \/ tk.claims.type # Some(kind)
    \/ IsNone(tk.claims.sub)
    \/ IsSome(tk.claims.sub) /\ int(Get(tk.claims.sub).v).exc # "none"
    \/ IsNone(tk.claims.email)

C2_VerifyFailsClosed ==
    \A tk \in Tokens, kind \in Kinds :
        /\ verify_token(tk, kind, now).exc = "none"
        /\ Defective(tk, kind) => verify_token(tk, kind, now) = Ret(None)

(* /auth/me was called with a signed access token whose subject is not a    *)
(* number, and answered 401                                                 *)
C2_Witness ==
    /\ resp.op = "me"
    /\ resp.status = 401
    /\ IsSome(resp.cred)
    /\ Get(resp.cred).wf
    /\ Get(resp.cred).key = JWT_SECRET_KEY
    /\ Get(resp.cred).claims.type = Some("access")
    /\ Get(resp.cred).claims.sub = Some(JStr(<<"o", "n", "e">>))

(* C3: round trip.  Verifying, before its expiry, an access token with      *)
(* kind 'access' (a refresh token with kind 'refresh') returns the integer  *)
(* user id that was encoded as the string 'sub' and the encoded e-mail.     *)
C3_RoundTrip ==
    /\ \A uid \in UserIdSamples, e \in Emails :
        /\ verify_token(create_access_token(Subject(uid, e), now), "access", now)
             = Ret(Some([user_id |-> uid, email |-> e]))
        /\ verify_token(create_refresh_token(Subject(uid, e), now), "refresh", now)
             = Ret(Some([user_id |-> uid, email |-> e]))
        /\ create_token_pair(uid, e, now).access_token.claims.sub = Some(JStr(str(uid)))
        /\ create_token_pair(uid, e, now).refresh_token.claims.sub = Some(JStr(str(uid)))
    /\ \A r \in issued :
        /\ r.pair = create_token_pair(r.user_id, r.email, r.iat)
        /\ now < r.iat + AccessTtl =>
             verify_token(r.pair.access_token, "access", now)
               = Ret(Some([user_id |-> r.user_id, email |-> r.email]))
        /\ now < r.iat + RefreshTtl =>
             verify_token(r.pair.refresh_token, "refresh", now)
               = Ret(Some([user_id |-> r.user_id, email |-> r.email]))

(* A pair issued earlier was presented to /auth/me before its expiry and    *)
(* resolved to the user it was issued for                                   *)
C3_Witness ==
    /\ resp.op = "me"
    /\ resp.status = 200
    /\ \E r \in issued :
        /\ resp.cred = Some(r.pair.access_token)
        /\ resp.user_id = r.user_id
        /\ r.user_id = 2
        /\ r.iat < now

(* C4: a correctly signed token of the requested kind is accepted at every  *)
(* instant before its expiry instant (issue time plus TTL) and rejected at  *)
(* every instant after it; a signed token is accepted without any record    *)
(* of it being kept.                                                        *)
C4_ExpiryBoundary ==
    /\ \A r \in issued :
        /\ now < r.iat + AccessTtl =>
             verify_token(r.pair.access_token, "access", now).ret # None
        /\ now > r.iat + AccessTtl =>
             verify_token(r.pair.access_token, "access", now) = Ret(None)
        /\ now < r.iat + RefreshTtl =>
             verify_token(r.pair.refresh_token, "refresh", now).ret # None
        /\ now > r.iat + RefreshTtl =>
             verify_token(r.pair.refresh_token, "refresh", now) = Ret(None)
    /\ Stranger \notin IssuedTokens /\ verify_token(Stranger, "access", now).ret # None

(* An access token was presented one second after its expiry instant *)
C4_Witness ==
    /\ resp.op = "me"
    /\ resp.status = 401
    /\ \E r \in issued :
        /\ resp.cred = Some(r.pair.access_token)
        /\ now = r.iat + AccessTtl + 1

-----------------------------------------------------------------------------
(* Properties of the identity resolver and the auth endpoints, under Spec *)

(* A request was handled in this step: every handler writes resp *)
Handled(op) == resp' # resp /\ resp'.op = op

(* A token that is a signed, unexpired access token with a numeric subject  *)
(* and an e-mail                                                            *)
GoodAccess(tk) ==
    /\ tk.wf
    /\ tk.key = JWT_SECRET_KEY
    /\ tk.claims.type = Some("access")
    /\ IsSome(tk.claims.exp) => Get(tk.claims.exp) >= now
    /\ IsSome(tk.claims.sub) /\ Get(tk.claims.sub).t = "str"
    /\ int(Get(tk.claims.sub).v).exc = "none"
    /\ IsSome(tk.claims.email) /\ Get(tk.claims.email).t = "str"
SubjectId(tk) == Get(int(Get(tk.claims.sub).v).ret)

(* C5: get_current_user returns a user only when all four gates pass, in    *)
(* this order: credential present (else 401), access token verifies (else   *)
(* 401), subject resolves to a user (else 401), user active (else 403);     *)
(* the user returned is the one whose id is the token's subject.            *)
C5_GatesInOrder ==
    \A c \in Credentials :
        LET r == get_current_user(c, users, now)
        IN  /\ IsNone(c) => r.status = 401 /\ r.detail = "Authorization header missing"
            /\ (IsSome(c) /\ ~GoodAccess(Get(c))) =>
                   r.status = 401 /\ r.detail = "Invalid token"
            /\ (IsSome(c) /\ GoodAccess(Get(c)) /\ SubjectId(Get(c)) \notin UserIds(users)) =>
                   r.status = 401 /\ r.detail = "User not found"
            /\ (IsSome(c) /\ GoodAccess(Get(c)) /\ SubjectId(Get(c)) \in UserIds(users)) =>
                   IF users[SubjectId(Get(c))].is_active
                   THEN r.status = 200 /\ r.user_id = SubjectId(Get(c))
                   ELSE r.status = 403
            /\ r.status # 200 => r.user_id = 0

(* /auth/me was called with the expired access token of a disabled user:    *)
(* the token gate answers before the active-flag gate                       *)
C5_Witness ==
    /\ resp.op = "me"
    /\ resp.status = 401
    /\ resp.detail = "Invalid token"
    /\ \E r \in issued :
        /\ resp.cred = Some(r.pair.access_token)
        /\ now > r.iat + AccessTtl
        /\ ~users[r.user_id].is_active

(* C7: login with an unknown e-mail, with the e-mail of an account without  *)
(* password hash, and with a wrong password give the same response (401,    *)
(* 'Invalid email or password'); no user row changes and no token is issued *)
C7_LoginRefusalsAlike ==
    [][ Handled("login") =>
        LET user == {i \in UserIds(users) : users[i].email = Get(resp'.email)}
            refused ==
                \/ user = {}
                \/ \E i \in user : IsNone(users[i].hashed_password)
                \/ \E i \in user : /\ IsSome(users[i].hashed_password)
                                   /\ Get(users[i].hashed_password).ident
                                   /\ Get(users[i].hashed_password).pw # Get(resp'.password)
        IN  refused =>
              /\ resp'.status = 401
              /\ resp'.detail = "Invalid email or password"
              /\ resp'.tokens = None
              /\ resp'.user_id = 0
              /\ users' = users
              /\ issued' = issued ]_vars

(* A login was refused for the e-mail of an account that has no password    *)
(* hash while another account has one                                       *)
C7_Witness ==
    /\ resp.op = "login"
    /\ resp.status = 401
    /\ \E i \in UserIds(users) :
        /\ users[i].email = Get(resp.email)
        /\ IsNone(users[i].hashed_password)
        /\ IsSome(users[i].last_login)
    /\ \E j \in UserIds(users) : IsSome(users[j].hashed_password)

(* C8: register, then login, then /auth/me with the access token answers    *)
(* 200 with the registered e-mail and the registered user's id, /auth/me    *)
(* with the refresh token answers 401, and login sets last_login.           *)
C8_EndToEnd ==
    [][ /\ Handled("register") /\ resp'.status = 201 =>
            /\ resp'.user_id \in UserIds(users') \ UserIds(users)
            /\ users'[resp'.user_id].email = Get(resp'.email)
            /\ users'[resp'.user_id].is_active
        /\ Handled("login") /\ resp'.status = 200 =>
            /\ resp'.user_id \in UserIds(users)
            /\ users[resp'.user_id].email = Get(resp'.email)
            /\ users'[resp'.user_id].last_login = Some(now)
            /\ Get(resp'.tokens) \in {r.pair : r \in issued'}
            /\ \E r \in issued' :
                  r.pair = Get(resp'.tokens) /\ r.user_id = resp'.user_id /\ r.iat = now
        /\ Handled("me") =>
            \A r \in issued :
                /\ ( /\ resp'.cred = Some(r.pair.access_token)
                     /\ now < r.iat + AccessTtl
                     /\ users[r.user_id].is_active ) =>
                        /\ resp'.status = 200
                        /\ resp'.user_id = r.user_id
                        /\ resp'.email = Some(r.email)
                        /\ users[r.user_id].email = r.email
                /\ resp'.cred = Some(r.pair.refresh_token) => resp'.status = 401 ]_vars

(* A registered user logged in and /auth/me answered 200 for the pair's     *)
(* access token                                                             *)
C8_Witness ==
    /\ resp.op = "me"
    /\ resp.status = 200
    /\ \E r \in issued :
        /\ resp.cred = Some(r.pair.access_token)
        /\ resp.email = Some(r.email)
        /\ users[r.user_id].provider = "local"
        /\ users[r.user_id].last_login = Some(r.iat)

(* C9: registering with an e-mail that already belongs to a user answers    *)
(* 400 and leaves the store unchanged.                                      *)
C9_DuplicateRegister ==
    [][ ( /\ Handled("register")
          /\ \E i \in UserIds(users) : users[i].email = Get(resp'.email) ) =>
            /\ resp'.status = 400
            /\ users' = users ]_vars

(* A second registration for the e-mail of an account that has logged in    *)
(* was answered 400                                                         *)
C9_Witness ==
    /\ resp.op = "register"
    /\ resp.status = 400
    /\ \E i \in UserIds(users) :
        /\ users[i].email = Get(resp.email)
        /\ IsSome(users[i].hashed_password)
        /\ IsSome(users[i].last_login)

-----------------------------------------------------------------------------
(* The CSRF state of the OAuth flow, under Spec *)

(* C10: the state stored by /auth/google is removed from the session by the *)
(* first /auth/google/callback that reaches validation, whatever the        *)
(* outcome: state matches, state differs, or state parameter missing.       *)
C10_StateRemovedWhateverOutcome ==
    [][ ( /\ Handled("google_callback")
          /\ IsSome(resp'.code)
          /\ IsSome(session.oauth_state) ) =>
            IsNone(session'.oauth_state) ]_vars

-----------------------------------------------------------------------------
(* The protected endpoints and a deactivated user, under SpecGate *)

ProtectedOps ==
    {"me", "token-info", "logout",
     "get_all_expenses", "get_expense_statistics", "get_expense", "create_expense",
     "update_expense", "delete_expense",
     "get_categories", "get_category", "create_category", "update_category",
     "delete_category", "get_category_expenses"}

(* C6: once a user's is_active flag is false, every protected endpoint      *)
(* called with the still-valid access token issued to them answers 403,     *)
(* never 401 or 400, returns no data and changes no row.                    *)
C6_DeactivatedForbidden ==
    [][ \A r \in issued :
          ( /\ resp' # resp
            /\ resp'.op \in ProtectedOps
            /\ resp'.cred = Some(r.pair.access_token)
            /\ now <= r.iat + AccessTtl
            /\ r.user_id \in UserIds(users)
            /\ ~users[r.user_id].is_active ) =>
              /\ resp'.status = 403
              /\ resp'.body = {}
              /\ resp'.user_id = 0
              /\ resp'.email = None
              /\ UNCHANGED <<users, categories, expenses, nextid, issued, session>> ]_vars

(* A user who logged in and created an expense was deactivated, and their   *)
(* next POST /expenses with the same token was answered 403                 *)
C6_Witness ==
    /\ resp.op = "create_expense"
    /\ resp.status = 403
    /\ \E r \in issued :
        /\ resp.cred = Some(r.pair.access_token)
        /\ ~users[r.user_id].is_active
        /\ \E e \in expenses : e.owner_id = Some(r.user_id)

-----------------------------------------------------------------------------
(* Replay and overlap of OAuth callbacks *)

(* The response r is that of a callback that got past state validation *)
PassedValidation(r) ==
    /\ r.op = "google_callback"
    /\ \/ r.status \in {200, 500}
       \/ r.detail = "Failed to get user information from Google"

(* C11: once a callback has passed state validation, a later callback of    *)
(* the session with the same state value and a code is answered 400, no     *)
(* /auth/google start having stored a fresh state in between.               *)
C11_ConsumedStateRejected ==
    [][ ( /\ PassedValidation(resp)
          /\ Handled("google_callback")
          /\ IsSome(resp'.code)
          /\ resp'.state = resp.state ) =>
            resp'.status = 400 ]_vars

(* C12: of the callback requests of one session that carry the same state   *)
(* and code and overlap, at most one is past state validation, waiting for  *)
(* the provider exchange.                                                   *)
C12_OneCallbackPastValidation ==
    \A c, d \in calls : (c.state = d.state /\ c.code = d.code) => c = d

(* C13: a callback without code, a callback arriving while the session      *)
(* holds no state, and a callback whose state is absent or differs from the *)
(* stored one never start the provider exchange; a callback answered on     *)
(* arrival is answered 400, no user row changes and no pair is issued.      *)
C13_RefusedBeforeExchange ==
    [][ /\ \A c \in calls' \ calls :
              /\ IsSome(c.code) /\ Get(c.code) # ""
              /\ IsSome(session.oauth_state)
              /\ c.state = session.oauth_state
        /\ (Handled("google_callback") /\ calls' = calls) =>
              /\ \/ IsNone(resp'.code)
                 \/ IsNone(session.oauth_state)
                 \/ resp'.state # session.oauth_state
              /\ resp'.status = 400
              /\ resp'.tokens = None
              /\ users' = users
              /\ issued' = issued
              /\ session' = session ]_vars

(* With a state stored and a user registered, a callback that carried a     *)
(* code and a state that was never generated was answered 400               *)
C13_Witness ==
    /\ resp.op = "google_callback"
    /\ resp.status = 400
    /\ resp.detail = "Invalid state parameter"
    /\ IsSome(resp.code)
    /\ resp.state = Some(0)
    /\ IsSome(session.oauth_state)
    /\ Len(users) > 0
    /\ calls = {}

-----------------------------------------------------------------------------
(* Account resolution and the provider client *)

UsersWith(db, e) == {i \in UserIds(db) : db[i].email = e}

(* C14: a callback for which the provider returned a profile with e-mail e  *)
(* links the existing row with that e-mail in place when it has no          *)
(* google_id, the number of users unchanged, or creates exactly one new     *)
(* user with provider 'google' and no password hash when no row has that    *)
(* e-mail; afterwards exactly one user has the e-mail, its last_login is    *)
(* set and the issued tokens carry its id.                                  *)
C14_ResolutionNoDuplicate ==
    [][ (Handled("google_callback") /\ IsSome(resp'.email)) =>
        LET e == Get(resp'.email)
            before == UsersWith(users, e)
            after == UsersWith(users', e)
        IN  /\ resp'.status = 200
            /\ Cardinality(after) = 1
            /\ before = {} =>
                  /\ Len(users') = Len(users) + 1
                  /\ users'[Len(users')].provider = "google"
                  /\ IsNone(users'[Len(users')].hashed_password)
            /\ \A i \in before :
                  /\ Len(users') = Len(users)
                  /\ users'[i].hashed_password = users[i].hashed_password
                  /\ IsNone(users[i].google_id) =>
                        /\ IsSome(users'[i].google_id)
                        /\ users'[i].provider = "google"
            /\ \A i \in after :
                  /\ users'[i].last_login = Some(now)
                  /\ resp'.user_id = i
                  /\ IsSome(resp'.tokens)
                  /\ SubjectId(Get(resp'.tokens).access_token) = i
                  /\ SubjectId(Get(resp'.tokens).refresh_token) = i
            /\ \A i \in UserIds(users) \ before : users'[i] = users[i] ]_vars

(* The provider's answer pr is a failure of the exchange or of the          *)
(* user-info call                                                           *)
ProviderFailed(pr) ==
    \/ pr.token # "ok"
    \/ pr.userinfo # "ok"
    \/ pr.status # 200
    \/ pr.body # "object"
    \/ IsNone(pr.data.id) \/ IsNone(pr.data.email)
    \/ Get(pr.data.id).t # "str"

(* C15: get_google_user_info returns None and does not raise on any failure *)
(* of the code exchange or of the user-info call: transport error, status   *)
(* other than 200, unparseable or ill-typed body, id or email missing.      *)
(* Stated for every callback request that waits for the provider.           *)
C15_ProviderFailureIsNone ==
    \A c \in calls, pr \in ProviderAnswers :
        ProviderFailed(pr) =>
            get_google_user_info(Get(c.code), Get(c.state), pr) = Ret(None)

-----------------------------------------------------------------------------
(* Refresh and logout, under SpecRefresh *)

(* A token that is a signed, unexpired refresh token with a numeric subject *)
(* and an e-mail                                                            *)
GoodRefresh(tk) ==
    /\ tk.wf
    /\ tk.key = JWT_SECRET_KEY
    /\ tk.claims.type = Some("refresh")
    /\ IsSome(tk.claims.exp) => Get(tk.claims.exp) >= now
    /\ IsSome(tk.claims.sub) /\ Get(tk.claims.sub).t = "str"
    /\ int(Get(tk.claims.sub).v).exc = "none"
    /\ IsSome(tk.claims.email) /\ Get(tk.claims.email).t = "str"

(* What the holders of the pairs handed out so far are answered is the same *)
(* after the step as before it                                              *)
AcceptedAsBefore ==
    \A q \in issued :
        /\ get_current_user(Some(q.pair.access_token), users', now')
              = get_current_user(Some(q.pair.access_token), users, now)
        /\ verify_token(q.pair.refresh_token, "refresh", now')
              = verify_token(q.pair.refresh_token, "refresh", now)

(* C16: /auth/refresh with the refresh token of a pair handed out earlier   *)
(* and not yet expired answers 200 with a pair that expires counted from    *)
(* now, however often the token was used before; every pair handed out      *)
(* before stays accepted as it was.                                         *)
C16_RefreshNotRotated ==
    [][ Handled("refresh") =>
        \A r \in issued :
            ( /\ resp'.cred = Some(r.pair.refresh_token)
              /\ now <= r.iat + RefreshTtl ) =>
                /\ resp'.status = 200
                /\ IsSome(resp'.tokens)
                /\ Get(resp'.tokens).access_token.claims.exp = Some(now + AccessTtl)
                /\ Get(resp'.tokens).refresh_token.claims.exp = Some(now + RefreshTtl)
                /\ verify_token(Get(resp'.tokens).access_token, "access", now).ret # None
                /\ verify_token(Get(resp'.tokens).refresh_token, "refresh", now).ret # None
                /\ issued \subseteq issued'
                /\ users' = users
                /\ AcceptedAsBefore ]_vars

(* The refresh token of the login pair was accepted after time had passed:  *)
(* a second pair is out and the first access token is still accepted        *)
C16_Witness ==
    /\ resp.op = "refresh"
    /\ resp.status = 200
    /\ \E r, q \in issued :
        /\ resp.cred = Some(r.pair.refresh_token)
        /\ resp.tokens = Some(q.pair)
        /\ r.iat < q.iat
        /\ get_current_user(Some(r.pair.access_token), users, now).status = 200
        /\ get_current_user(Some(q.pair.access_token), users, now).status = 200

(* C17: /auth/refresh answers 401 and issues nothing for a token that is    *)
(* invalid, expired or not of refresh kind, and for a valid one whose       *)
(* subject is no user; on success the pair carries the reloaded user's id   *)
(* and current e-mail, not the old token's e-mail claim.                    *)
C17_RefreshReloadsUser ==
    [][ Handled("refresh") =>
        LET tk == Get(resp'.cred)
            new == Get(resp'.tokens)
        IN  /\ ~GoodRefresh(tk) =>
                  /\ resp'.status = 401
                  /\ IsNone(resp'.tokens)
                  /\ issued' = issued
            /\ (GoodRefresh(tk) /\ SubjectId(tk) \notin UserIds(users)) =>
                  /\ resp'.status = 401
                  /\ IsNone(resp'.tokens)
                  /\ issued' = issued
            /\ (GoodRefresh(tk) /\ SubjectId(tk) \in UserIds(users)) =>
                  /\ resp'.status = 200
                  /\ IsSome(resp'.tokens)
                  /\ new.access_token.claims.sub = SubOf(SubjectId(tk))
                  /\ new.refresh_token.claims.sub = SubOf(SubjectId(tk))
                  /\ new.access_token.claims.email = MailOf(users[SubjectId(tk)].email)
                  /\ new.refresh_token.claims.email = MailOf(users[SubjectId(tk)].email)
            /\ users' = users ]_vars

(* A refresh token whose e-mail claim is not the user's e-mail was accepted *)
(* and the new pair carries the e-mail of the user row                      *)
C17_Witness ==
    /\ resp.op = "refresh"
    /\ resp.status = 200
    /\ resp.cred = Some(StaleMailRefresh)
    /\ Get(resp.tokens).access_token.claims.email = MailOf(users[1].email)
    /\ Get(resp.tokens).access_token.claims.email # StaleMailRefresh.claims.email

(* C18: /auth/logout changes no row, session or issued pair, and every      *)
(* access and refresh token handed out before it, the one presented         *)
(* included, is accepted after it exactly as before.                        *)
C18_LogoutStateless ==
    [][ Handled("logout") =>
          /\ UNCHANGED <<users, categories, expenses, nextid, now, session, issued>>
          /\ AcceptedAsBefore
          /\ resp'.status = 200 =>
                get_current_user(resp'.cred, users', now').status = 200 ]_vars

(* After a logout answered 200 the presented access token and the refresh   *)
(* token of its pair are still accepted                                     *)
C18_Witness ==
    /\ resp.op = "logout"
    /\ resp.status = 200
    /\ \E r \in issued :
        /\ resp.cred = Some(r.pair.access_token)
        /\ get_current_user(resp.cred, users, now).status = 200
        /\ verify_token(r.pair.refresh_token, "refresh", now).ret # None

-----------------------------------------------------------------------------
(* The credential hasher, under SpecHash *)

(* C19: verify_password returns false and does not raise on a stored string *)
(* that is no hash made by hash_password; a login against a row holding    *)
(* such a string is answered 401.                                           *)
C19_MalformedHashIs401 ==
    [][ Handled("login") =>
        \A i \in UserIds(users) :
            ( /\ users[i].email = Get(resp'.email)
              /\ IsSome(users[i].hashed_password)
              /\ ~Get(users[i].hashed_password).ident ) =>
                /\ verify_password(Get(resp'.password), Get(users[i].hashed_password))
                      = Ret(Some(FALSE))
                /\ resp'.status = 401 ]_vars

(* C20: the hash stored by a registration verifies the password it was made *)
(* from and no other password, and no two stored hashes are the same        *)
(* string.                                                                  *)
C20_VerifyExactlyOwnPassword ==
    /\ (resp.op = "register" /\ resp.status = 201) =>
          \A w \in HashPasswords :
              verify_password(w, Get(users[resp.user_id].hashed_password))
                 = Ret(Some(w = Get(resp.password)))
    /\ \A i, j \in UserIds(users) :
          ( /\ i # j
            /\ IsSome(users[i].hashed_password)
            /\ IsSome(users[j].hashed_password) ) =>
               users[i].hashed_password # users[j].hashed_password

-----------------------------------------------------------------------------
(* Expenses of two users, under SpecExpenses *)

(* The rows of the expenses table a user owns *)
OwnedBy(id) == {e \in expenses : e.owner_id = Some(id)}

(* C21: every row GET /expenses returns is a stored expense owned by the    *)
(* caller, of the category asked for when one is given; a caller who owns   *)
(* nothing gets the empty list.                                             *)
C21_ListOnlyOwn ==
    [][ (Handled("get_all_expenses") /\ resp'.status = 200) =>
          /\ \A e \in resp'.body :
                /\ e \in expenses
                /\ e.owner_id = Some(resp'.user_id)
                /\ IsSome(resp'.args.category_id) => e.category_id = resp'.args.category_id
          /\ OwnedBy(resp'.user_id) = {} => resp'.body = {} ]_vars

(* A caller was listed their own expense while another user owns one too *)
C21_Witness ==
    /\ resp.op = "get_all_expenses"
    /\ resp.status = 200
    /\ resp.body # {}
    /\ \E e \in expenses : IsSome(e.owner_id) /\ e.owner_id # Some(resp.user_id)

(* The request was let through by the identity resolver *)
Admitted == get_current_active_user(resp'.cred, users, now).status = 200

(* C22: get, update and delete of an expense the caller does not own answer *)
(* 403 and of an id no expense has answer 404; in both cases no row of the  *)
(* store changes.                                                           *)
C22_ForeignExpenseForbidden ==
    [][ \A op \in {"get_expense", "update_expense", "delete_expense"} :
          (Handled(op) /\ Admitted) =>
            LET expense == db_get(expenses, resp'.args.expense_id)
            IN  /\ IsNone(expense) =>
                      /\ resp'.status = 404
                      /\ UNCHANGED <<expenses, categories, users>>
                /\ (IsSome(expense) /\ Get(expense).owner_id # Some(resp'.user_id)) =>
                      /\ resp'.status = 403
                      /\ UNCHANGED <<expenses, categories, users>> ]_vars

(* An update of another user's expense was answered 403 and the row is      *)
(* still there                                                              *)
C22_Witness ==
    /\ resp.op = "update_expense"
    /\ resp.status = 403
    /\ \E e \in expenses :
          /\ e.id = resp.args.expense_id
          /\ IsSome(e.owner_id)
          /\ e.owner_id # Some(resp.user_id)
          /\ resp.args.upd # NoUpdate

(* The amounts of the expenses with ids n and below that a user owns, added *)
(* up row by row                                                            *)
RECURSIVE OwnedTotal(_, _)
OwnedTotal(id, n) ==
    IF n = 0 THEN 0
    ELSE OwnedTotal(id, n - 1)
         + (IF \E e \in OwnedBy(id) : e.id = n
            THEN (CHOOSE e \in OwnedBy(id) : e.id = n).amount ELSE 0)

(* C23: GET /expenses/statistics without filters reports the number of      *)
(* expenses the caller owns now and the sum of their amounts as they are    *)
(* now, 0 and 0 when the caller owns none; rows of other users do not       *)
(* count.                                                                   *)
C23_StatisticsOfOwn ==
    [][ ( /\ Handled("get_expense_statistics")
          /\ resp'.status = 200
          /\ resp'.args = [start_date |-> None, end_date |-> None, category_id |-> None] ) =>
          \A st \in resp'.body :
              /\ resp'.body = {st}
              /\ st.total_expenses = Cardinality(OwnedBy(resp'.user_id))
              /\ st.total_amount = OwnedTotal(resp'.user_id, nextid.expense)
              /\ OwnedBy(resp'.user_id) = {} =>
                    (st.total_expenses = 0 /\ st.total_amount = 0) ]_vars

(* Statistics were given after an update of the amount, while another user  *)
(* owns an expense as well                                                  *)
C23_Witness ==
    /\ resp.op = "get_expense_statistics"
    /\ resp.status = 200
    /\ \E st \in resp.body : st.total_expenses = 1 /\ st.total_amount = 25
    /\ \E e \in expenses : IsSome(e.owner_id) /\ e.owner_id # Some(resp.user_id)

-----------------------------------------------------------------------------
(* Expenses and their categories, under SpecCategories *)

(* C28: every expense's category_id is null or the id of a category, and    *)
(* the handlers see to it themselves: create_expense with a category that   *)
(* does not exist answers 400 and creates nothing, delete_category without  *)
(* force answers 400 while an expense refers to the category, with force it *)
(* sets category_id to null on every such expense, and no create or update  *)
(* is left to fail on the foreign key at commit.                            *)
C28_CategoryReferencesChecked ==
    [][ /\ \A e \in expenses' :
              IsSome(e.category_id) => \E c \in categories' : c.id = Get(e.category_id)
        /\ (Handled("create_expense") /\ Admitted) =>
              ( IsNone(db_get(categories, resp'.args.category_id)) =>
                   (resp'.status = 400 /\ expenses' = expenses) )
        /\ (Handled("update_expense") /\ Admitted) => resp'.status # 500
        /\ (Handled("delete_category") /\ Admitted) =>
              LET referring == {e \in expenses :
                                   e.category_id = Some(resp'.args.category_id)}
              IN  IsSome(db_get(categories, resp'.args.category_id)) =>
                    /\ (referring # {} /\ ~resp'.args.force) =>
                          /\ resp'.status = 400
                          /\ UNCHANGED <<expenses, categories>>
                    /\ (referring # {} /\ resp'.args.force) =>
                          /\ resp'.status = 204
                          /\ IsNone(db_get(categories', resp'.args.category_id))
                          /\ \A e \in referring :
                                [e EXCEPT !.category_id = None] \in expenses' ]_vars

-----------------------------------------------------------------------------
(* Sign-in flows of one session, under SpecFlow *)

(* C29: every /auth/google answered 200 stores the state it returns, a      *)
(* value no earlier start returned, in place of the pending one; a callback *)
(* gets past validation only with the stored state, and one carrying the    *)
(* state of an earlier start is answered 400.                               *)
C29_LatestStateOnly ==
    [][ /\ (Handled("google_login") /\ resp'.status = 200) =>
              /\ session'.oauth_state = resp'.state
              /\ IsSome(resp'.state)
              /\ Get(resp'.state) > nstates
              /\ IsSome(session.oauth_state) => Get(resp'.state) > Get(session.oauth_state)
        /\ Handled("google_callback") =>
              /\ PassedValidation(resp') => resp'.state = session.oauth_state
              /\ ( /\ IsSome(resp'.state)
                   /\ IsSome(session.oauth_state)
                   /\ Get(resp'.state) < Get(session.oauth_state) ) =>
                      /\ resp'.status = 400
                      /\ IsNone(resp'.tokens)
                      /\ UNCHANGED <<users, issued, session>> ]_vars

(* After two starts a callback with a code and the state of the first start *)
(* was answered 400                                                         *)
C29_Witness ==
    /\ resp.op = "google_callback"
    /\ resp.status = 400
    /\ IsSome(resp.code)
    /\ resp.state = Some(1)
    /\ session.oauth_state = Some(2)

-----------------------------------------------------------------------------
(* Google sign-in for an e-mail that has an account, under SpecLink *)

(* C24: whenever the provider's profile carries the e-mail of an existing   *)
(* user, the callback issues a pair for that user: with google_id unset the *)
(* account is linked, with google_id set none of google_id, provider,       *)
(* avatar_url, is_verified changes; the profile's verified_email flag and   *)
(* the account's password play no part.                                     *)
C24_EmailAloneAuthenticates ==
    [][ ( /\ Handled("google_callback")
          /\ PassedValidation(resp')
          /\ IsSome(resp'.email) ) =>
          \A i \in UserIds(users) :
              users[i].email = Get(resp'.email) =>
                  /\ resp'.status = 200
                  /\ resp'.user_id = i
                  /\ IsSome(resp'.tokens)
                  /\ Get(resp'.tokens).access_token.claims.sub = SubOf(i)
                  /\ users'[i].hashed_password = users[i].hashed_password
                  /\ IsNone(users[i].google_id) =>
                        /\ IsSome(users'[i].google_id)
                        /\ users'[i].provider = "google"
                  /\ IsSome(users[i].google_id) =>
                        /\ users'[i].google_id = users[i].google_id
                        /\ users'[i].provider = users[i].provider
                        /\ users'[i].avatar_url = users[i].avatar_url
                        /\ users'[i].is_verified = users[i].is_verified ]_vars

-----------------------------------------------------------------------------
(* Overlapping sign-ups, under SpecSignup *)

(* C25: however register and callback requests overlap, no two rows of the  *)
(* users table have the same e-mail, a step adds at most one row, and a     *)
(* request that is not answered 201 or 200 adds none.                       *)
C25_EmailStaysUnique ==
    [][ /\ \A i, j \in UserIds(users') : i # j => users'[i].email # users'[j].email
        /\ Len(users') <= Len(users) + 1
        /\ \A op \in {"register", "google_callback"} :
              (Handled(op) /\ resp'.status \notin {200, 201}) => users' = users ]_vars

(* A register request found no user for its e-mail, a Google sign-in for    *)
(* the same e-mail committed first, and the register request ended 500      *)
(* with one row for the e-mail                                              *)
C25_Witness ==
    /\ resp.op = "register"
    /\ resp.status = 500
    /\ Cardinality(UsersWith(users, Get(resp.email))) = 1
    /\ \E i \in UserIds(users) :
          users[i].email = Get(resp.email) /\ users[i].provider = "google"

-----------------------------------------------------------------------------
(* Deactivated users at login and refresh, under Spec *)

(* C26: login with the right password and refresh with a valid refresh      *)
(* token answer 200 with a pair for a user whose is_active is false; while  *)
(* the flag is false every unexpired access token handed out for the user   *)
(* is refused with 403 by get_current_user.                                 *)
C26_InactiveGetsTokens ==
    [][ /\ Handled("login") =>
              \A i \in UserIds(users) :
                  ( /\ users[i].email = Get(resp'.email)
                    /\ ~users[i].is_active
                    /\ IsSome(users[i].hashed_password)
                    /\ verify_password(Get(resp'.password), Get(users[i].hashed_password))
                          = Ret(Some(TRUE)) ) =>
                      /\ resp'.status = 200
                      /\ IsSome(resp'.tokens)
                      /\ get_current_user(Some(Get(resp'.tokens).access_token),
                                          users', now').status = 403
        /\ ( /\ Handled("refresh")
             /\ GoodRefresh(Get(resp'.cred))
             /\ SubjectId(Get(resp'.cred)) \in UserIds(users)
             /\ ~users[SubjectId(Get(resp'.cred))].is_active ) =>
                  /\ resp'.status = 200
                  /\ IsSome(resp'.tokens)
                  /\ get_current_user(Some(Get(resp'.tokens).access_token),
                                      users', now').status = 403
        /\ \A r \in issued' :
              ( /\ ~users'[r.user_id].is_active
                /\ now' <= r.iat + AccessTtl ) =>
                  get_current_user(Some(r.pair.access_token), users', now').status = 403 ]_vars

(* A deactivated user was given a pair by refresh, and the access token of  *)
(* the pair is refused with 403                                             *)
C26_Witness ==
    /\ resp.op = "refresh"
    /\ resp.status = 200
    /\ \E r \in issued :
          /\ resp.tokens = Some(r.pair)
          /\ ~users[r.user_id].is_active
          /\ get_current_user(Some(r.pair.access_token), users, now).status = 403

-----------------------------------------------------------------------------
(* The two active-flag gates, under SpecGate *)

(* What get_current_user returns for a user it lets through *)
Passed(id) == [status |-> 200, detail |-> "", user_id |-> id]

(* C30: given an inactive user, get_current_active_user raises 400          *)
(* 'Inactive user', not the 403 of get_current_user; resolved after         *)
(* get_current_user, as on every protected endpoint, it never does: an      *)
(* inactive user's request has already been refused with 403, and no        *)
(* response is 'Inactive user'.                                             *)
C30_SecondGateUnreachable ==
    /\ \A i \in UserIds(users) :
          ~users[i].is_active =>
              /\ get_current_active_user_body(Passed(i), users) = Fail(400, "Inactive user")
              /\ get_current_active_user_body(Passed(i), users).status # 403
    /\ \A r \in issued :
          ( /\ ~users[r.user_id].is_active
            /\ now <= r.iat + AccessTtl ) =>
              /\ get_current_user(Some(r.pair.access_token), users, now)
                    = Fail(403, "User account is disabled")
              /\ get_current_active_user(Some(r.pair.access_token), users, now)
                    = Fail(403, "User account is disabled")
    /\ resp.detail # "Inactive user"

(* A deactivated user called an expenses or categories endpoint and was     *)
(* answered 403 by the first gate, where the second gate alone would have   *)
(* answered 400                                                             *)
C30_Witness ==
    /\ resp.op \in ProtectedOps \ {"me", "token-info", "logout"}
    /\ resp.status = 403
    /\ resp.detail = "User account is disabled"
    /\ \E r \in issued :
          /\ resp.cred = Some(r.pair.access_token)
          /\ ~users[r.user_id].is_active
          /\ get_current_active_user_body(Passed(r.user_id), users).status = 400

====
